---- MODULE Spec2Model ----
(***************************************************************************)
(* Cache-aside user repository (app/services/user.py) in front of a        *)
(* relational store, with the Redis adapter of app/core/cache.py.          *)
(*                                                                         *)
(* Python values are modelled as pairs <<type, text>>, so that str(), the  *)
(* JSON round trip and isinstance() are computed and not assumed.  Every   *)
(* repository function is a pure operator from a context (store, cache,    *)
(* session, effect counters) to a context; the actions apply them.         *)
(***************************************************************************)
EXTENDS Integers, Sequences, FiniteSets, TLC

VARIABLES db,       \* committed rows of table user: [subset of ids -> row]
          cache,    \* the Redis keyspace: [subset of keys -> [val, ttl]]
          next_id,  \* the next AUTO_INCREMENT value of user.id
          now,      \* the clock that stamps created_at / updated_at
          steps,    \* calls and keyspace events so far
          last,     \* the call that has just returned: what it was given,
                    \* the state it started in, and what it handed back
          tx        \* the calls in flight, each in a session of its own:
                    \* where it stands, its session, what it handed back

vars == <<db, cache, next_id, now, steps, last, tx>>

(***************************************************************************)
(* Bounds of the model.                                                    *)
(***************************************************************************)
MaxId == 2        \* rows ever inserted
MaxSteps == 3     \* calls and keyspace events in a behaviour
MaxDead == 4      \* consecutive deadlocks the store reports to one call
Outage == 16      \* cache commands that fail before Redis is back

(***************************************************************************)
(* Program constants.                                                      *)
(***************************************************************************)
USER_CACHE_EXPIRE == 3600
USERS_LIST_CACHE_EXPIRE == 300
MAX_RETRIES == 3

(***************************************************************************)
(* Python values.                                                          *)
(***************************************************************************)
PyInt(n) == <<"int", ToString(n)>>
PyStr(s) == <<"str", s>>
PyBool(b) == <<"bool", IF b THEN "True" ELSE "False">>
PyDatetime(t) == <<"datetime", ToString(t)>>
PyNone == <<"none", "None">>

\* str(v) and "{}".format(v): the text of the value, as a str
str(v) == <<"str", v[2]>>
\* isinstance(v, int) / isinstance(v, str); bool is a subclass of int
isinstance_int(v) == v[1] \in {"int", "bool"}
isinstance_str(v) == v[1] = "str"

Emails == {"a@x", "A@x", "b@x"}
Usernames == {"u1", "u2"}
FullNames == {"n1", "n2"}

\* str.lower()
lower(s) == IF s = "A@x" THEN "a@x" ELSE s

(***************************************************************************)
(* Cache keys: USER_KEY, USER_EMAIL_KEY, USERS_LIST_KEY after .format().   *)
(***************************************************************************)
USER_KEY(id) == <<"user", str(id)[2]>>
USER_EMAIL_KEY(email) == <<"user:email", str(email)[2]>>
USERS_LIST_KEY(skip, limit) == <<"users:list", ToString(skip), ToString(limit)>>
\* the glob users:list:*:*
MatchesListPattern(k) == k[1] = "users:list"

(***************************************************************************)
(* JSON documents held by the cache.  A stored text is a dict, a list of   *)
(* dicts, or text that json.loads rejects.                                 *)
(***************************************************************************)
JDict(d) == [t |-> "dict", items |-> <<d>>]
JList(s) == [t |-> "list", items |-> s]
JRaw == [t |-> "raw", items |-> <<>>]
JNone == [t |-> "none", items |-> <<>>]
\* the stored texts "" and "null", and the text of an integer (a counter)
JEmpty == [t |-> "empty", items |-> <<>>]
JNull == [t |-> "null", items |-> <<>>]
JInt(n) == [t |-> "int", items |-> <<n>>]

\* json.dumps / json.loads of one value: a datetime cannot be dumped; the
\* other values come back as they went in
Dumpable(d) == \A f \in DOMAIN d : d[f][1] # "datetime"
\* Python truthiness of a loaded document
Truthy(j) == \/ j.t = "dict" /\ DOMAIN j.items[1] # {}
             \/ j.t = "list" /\ j.items # <<>>
             \/ j.t = "int" /\ j.items[1] # 0

Remove(f, S) == [x \in (DOMAIN f) \ S |-> f[x]]
Put(f, k, v) == [x \in (DOMAIN f) \cup {k} |-> IF x = k THEN v ELSE f[x]]

(***************************************************************************)
(* The context a repository call runs in.  Besides the store and the       *)
(* keyspace it holds what the call is given (which cache commands work and *)
(* how many fail before Redis is back, which failures the store will       *)
(* report to the next commits), the state of the SQLAlchemy session, and   *)
(* counters of the effects the call has had.                               *)
(***************************************************************************)
EmptyDict == [f \in {} |-> PyNone]
NoPending == [kind |-> "none", id |-> 0, attrs |-> EmptyDict]

Ctx(d, c, nid, clk, up, plan, intx) ==
    [db |-> d, cache |-> c, next_id |-> nid, now |-> clk,
     up |-> up, plan |-> plan,
     intx |-> intx, pending |-> NoPending,
     commits |-> 0, rollbacks |-> 0, queries |-> 0, attempts |-> 0,
     cgets |-> 0, csets |-> 0, cdels |-> 0, cclears |-> 0,
     order |-> <<>>]

\* the order of the cache writes and commits of a call
Log(x, what) == [x EXCEPT !.order = Append(@, what)]

(***************************************************************************)
(* app/core/cache.py                                                       *)
(***************************************************************************)
\* get_redis_client: whether the command reaches Redis, and the context
\* after the command was sent
Reached(x, cmd) == x.up.outage = 0 /\ x.up[cmd]
Sent(x) == [x EXCEPT !.up.outage = IF @ > 0 THEN @ - 1 ELSE 0]

\* deserialize_value: json.loads raises for text that is no JSON, the empty
\* text included; "null" loads as None
Parses(j) == j.t \notin {"raw", "empty"}
deserialize_value(j) == IF j.t = "null" THEN JNone ELSE j

\* cache_get: a RedisError is re-raised; the ValueError of deserialize_value
\* is not a RedisError and leaves cache_get as it is; an empty text is
\* falsy and is not handed to deserialize_value
cache_get(x, key) ==
    LET y == [Sent(x) EXCEPT !.cgets = @ + 1] IN
    IF ~Reached(x, "get") THEN [x |-> y, err |-> "RedisError", val |-> JNone]
    ELSE IF key \notin DOMAIN x.cache \/ x.cache[key].val.t = "empty"
    THEN [x |-> y, err |-> "", val |-> JNone]
    ELSE IF ~Parses(x.cache[key].val) THEN [x |-> y, err |-> "ValueError", val |-> JNone]
    ELSE [x |-> y, err |-> "", val |-> deserialize_value(x.cache[key].val)]

\* cache_multi_get that lets the ValueError of deserialize_value out
cache_multi_get_strict(x, keys) ==
    LET y == [Sent(x) EXCEPT !.cgets = @ + 1]
        found == {k \in keys : k \in DOMAIN x.cache}
    IN
    IF ~Reached(x, "get")
    THEN [x |-> y, err |-> "RedisError", val |-> [k \in {} |-> JNone]]
    ELSE IF \E k \in found : ~Parses(x.cache[k].val)
    THEN [x |-> y, err |-> "ValueError", val |-> [k \in {} |-> JNone]]
    ELSE [x |-> y, err |-> "", val |-> [k \in found |-> deserialize_value(x.cache[k].val)]]

\* cache_multi_get: one MGET; a value that does not parse is left out, a
\* RedisError is re-raised
cache_multi_get(x, keys) ==
    LET y == [Sent(x) EXCEPT !.cgets = @ + 1]
        good == {k \in keys : k \in DOMAIN x.cache /\ Parses(x.cache[k].val)}
    IN
    IF ~Reached(x, "get")
    THEN [x |-> y, err |-> "RedisError", val |-> [k \in {} |-> JNone]]
    ELSE [x |-> y, err |-> "", val |-> [k \in good |-> deserialize_value(x.cache[k].val)]]

\* cache_exists: bool(client.exists(key)), False on a RedisError
cache_exists(x, key) ==
    [x |-> Sent(x), err |-> "", ok |-> Reached(x, "get") /\ key \in DOMAIN x.cache]

\* cache_increment: INCRBY makes the counter if the key is absent and fails
\* (ResponseError) on a value that is no integer; None on a RedisError
cache_increment(x, key, amount) ==
    IF ~Reached(x, "set") THEN [x |-> Sent(x), err |-> "", val |-> JNone]
    ELSE IF key \notin DOMAIN x.cache
    THEN [x |-> [Sent(x) EXCEPT !.cache = Put(@, key, [val |-> JInt(amount), ttl |-> -1])],
          err |-> "", val |-> JInt(amount)]
    ELSE IF x.cache[key].val.t = "int"
    THEN [x |-> [Sent(x) EXCEPT !.cache[key].val = JInt(@.items[1] + amount)],
          err |-> "", val |-> JInt(x.cache[key].val.items[1] + amount)]
    ELSE [x |-> Sent(x), err |-> "", val |-> JNone]

\* check_redis_health: bool(client.ping()), False on a RedisError
check_redis_health(x) == [x |-> Sent(x), err |-> "", ok |-> Reached(x, "get")]

\* serialize_value
Serializable(j) == \A i \in DOMAIN j.items : Dumpable(j.items[i])

\* cache_set that lets the ValueError of serialize_value out
cache_set_raising(x, key, value, expire) ==
    LET y == [Sent(x) EXCEPT !.csets = @ + 1] IN
    IF ~Serializable(value) THEN [x |-> y, err |-> "ValueError", ok |-> FALSE]
    ELSE IF ~Reached(x, "set") THEN [x |-> y, err |-> "", ok |-> FALSE]
    ELSE [x |-> Log([y EXCEPT !.cache = Put(@, key, [val |-> value, ttl |-> expire])],
                    <<"set", key[1]>>),
          err |-> "", ok |-> TRUE]

\* cache_set: False on a RedisError and on a value json.dumps rejects
cache_set(x, key, value, expire) ==
    LET y == [Sent(x) EXCEPT !.csets = @ + 1] IN
    IF ~Serializable(value) \/ ~Reached(x, "set")
    THEN [x |-> y, err |-> "", ok |-> FALSE]
    ELSE [x |-> Log([y EXCEPT !.cache = Put(@, key, [val |-> value, ttl |-> expire])],
                    <<"set", key[1]>>),
          err |-> "", ok |-> TRUE]

\* cache_delete: bool(client.delete(key)), the number of keys removed
cache_delete(x, key) ==
    LET y == [Sent(x) EXCEPT !.cdels = @ + 1] IN
    IF ~Reached(x, "del") THEN [x |-> y, err |-> "", ok |-> FALSE]
    ELSE [x |-> Log([y EXCEPT !.cache = Remove(@, {key})], <<"delete", key[1]>>),
          err |-> "", ok |-> key \in DOMAIN x.cache]

\* cache_multi_set: one pipeline of setex; a value that does not serialize
\* is left out
cache_multi_set(x, data, expire) ==
    LET y == [Sent(x) EXCEPT !.csets = @ + 1]
        good == {k \in DOMAIN data : Serializable(data[k])}
    IN
    IF ~Reached(x, "mset") THEN [x |-> y, err |-> "", ok |-> FALSE]
    ELSE [x |-> Log([y EXCEPT !.cache =
                        [k \in (DOMAIN @) \cup good |->
                            IF k \in good THEN [val |-> data[k], ttl |-> expire]
                            ELSE @[k]]],
                    <<"multi_set", "user">>),
          err |-> "", ok |-> TRUE]

\* cache_clear_pattern(USERS_LIST_KEY.format("*", "*")), client.keys(pattern):
\* the keys that match when the scan is answered
cache_clear_pattern_keys(x) == {k \in DOMAIN x.cache : MatchesListPattern(k)}

\* a delete step that removes whatever matches when it runs
cache_clear_pattern_delete_matching(y, keys) ==
    [x |-> Log([y EXCEPT !.cache = Remove(@, cache_clear_pattern_keys(y))],
               <<"clear", "users:list">>),
     err |-> "", ok |-> TRUE]

\* cache_clear_pattern, if keys: bool(client.delete(*keys)), on the keyspace
\* as it is when the DEL arrives; the answer is whether a key was removed
cache_clear_pattern_delete(y, keys) ==
    [x |-> Log([y EXCEPT !.cache = Remove(@, keys)], <<"clear", "users:list">>),
     err |-> "", ok |-> keys = {} \/ keys \cap DOMAIN y.cache # {}]

\* cache_clear_pattern with nothing between its two commands
cache_clear_pattern(x) ==
    LET y == [Sent(x) EXCEPT !.cclears = @ + 1] IN
    IF ~Reached(x, "del") THEN [x |-> y, err |-> "", ok |-> FALSE]
    ELSE cache_clear_pattern_delete(y, cache_clear_pattern_keys(x))

(***************************************************************************)
(* app/models/user.py: the mapped class User and its table.                *)
(***************************************************************************)
UserColumns == {"id", "email", "username", "hashed_password", "full_name",
                "is_active", "is_superuser", "created_at", "updated_at"}

\* An instance: its attribute values, and whether it is a row of the session
\* (persistent) or an object the constructor made (transient).
Loaded(row) == [attrs |-> row, persistent |-> TRUE]
\* an attribute of an instance; a column never set reads None
Attr(u, f) == IF f \in DOMAIN u.attrs THEN u.attrs[f] ELSE PyNone

\* User(**kwargs): the declarative constructor raises TypeError for a key
\* that is no attribute of the class
UserCtorRaises(kwargs) == ~(DOMAIN kwargs \subseteq UserColumns)
UserCtor(kwargs) == [attrs |-> kwargs, persistent |-> FALSE]

(***************************************************************************)
(* Exceptions: the class, and the words str(e) contains.                   *)
(***************************************************************************)
NoExc == [type |-> "", words |-> {}]
Exc(type, words) == [type |-> type, words |-> words]
Raised(e) == e.type # ""
\* the text of a DBAPI error ends with the statement that failed
InsertStatementWords == {"insert", "email", "username"}
UpdateStatementWords(changed) == {"update"} \cup (changed \cap {"email", "username"})

(***************************************************************************)
(* The SQLAlchemy session (autoflush off, expire_on_commit off).           *)
(***************************************************************************)
\* Query.filter(): the ids of the rows with column = value, leaving out the
\* row of id other (0: none is left out)
RowsWhere(x, column, value, other) ==
    {i \in DOMAIN x.db : x.db[i][column] = value /\ i # other}
\* User.email.ilike(email): equal up to letter case
RowsIlike(x, email) == {i \in DOMAIN x.db : lower(x.db[i]["email"][2]) = lower(email)}
Min(S) == CHOOSE i \in S : \A j \in S : i <= j

\* Query.first(): the first matching row in primary key order; the query
\* begins the session's transaction
query_first(x, ids) ==
    LET y == [x EXCEPT !.queries = @ + 1, !.intx = TRUE]
    IN [x |-> y, found |-> IF ids = {} THEN <<>> ELSE <<Loaded(x.db[Min(ids)])>>]

\* the unique indexes on user.email and user.username; the error names the
\* key (ix_user_email, ix_user_username)
UniqueViolation(x, attrs, self) ==
    IF \E i \in DOMAIN x.db : i # self /\ x.db[i]["email"] = attrs["email"]
    THEN {"duplicate", "email"}
    ELSE IF \E i \in DOMAIN x.db : i # self /\ x.db[i]["username"] = attrs["username"]
    THEN {"duplicate", "username"}
    ELSE {}

\* the flush of the unit of work at commit: [x, exc, obj], obj the attribute
\* values of the flushed instance
Flush(x) ==
    LET p == x.pending
        stamp == PyDatetime(x.now)
    IN
    CASE p.kind = "insert" ->
           LET row == [f \in UserColumns |->
                          IF f = "id" THEN PyInt(x.next_id)
                          ELSE IF f \in {"created_at", "updated_at"} THEN stamp
                          ELSE p.attrs[f]]
               dup == UniqueViolation(x, row, x.next_id)
           IN IF dup # {}
              THEN [x |-> x, exc |-> Exc("IntegrityError", dup \cup InsertStatementWords),
                    obj |-> p.attrs]
              ELSE [x |-> [x EXCEPT !.db = Put(@, x.next_id, row),
                                    !.next_id = @ + 1, !.now = @ + 1],
                    exc |-> NoExc, obj |-> row]
      [] p.kind = "update" ->
           LET old == x.db[p.id]
               changed == {f \in DOMAIN p.attrs : p.attrs[f] # old[f]}
               row == [f \in UserColumns |->
                          IF f = "updated_at" THEN stamp ELSE p.attrs[f]]
               dup == UniqueViolation(x, row, p.id)
           IN IF changed = {} THEN [x |-> x, exc |-> NoExc, obj |-> p.attrs]
              ELSE IF dup # {}
              THEN [x |-> x,
                    exc |-> Exc("IntegrityError", dup \cup UpdateStatementWords(changed)),
                    obj |-> p.attrs]
              ELSE [x |-> [x EXCEPT !.db = Put(@, p.id, row), !.now = @ + 1],
                    exc |-> NoExc, obj |-> row]
      [] p.kind = "delete" ->
           [x |-> [x EXCEPT !.db = Remove(@, {p.id})], exc |-> NoExc, obj |-> p.attrs]
      [] OTHER -> [x |-> x, exc |-> NoExc, obj |-> p.attrs]

\* the columns an UPDATE of the pending instance would set
Changed(x) ==
    {f \in DOMAIN x.pending.attrs : x.pending.attrs[f] # x.db[x.pending.id][f]}
\* whether the flush sends an INSERT, UPDATE or DELETE
Writes(x) ==
    \/ x.pending.kind \in {"insert", "delete"}
    \/ x.pending.kind = "update" /\ Changed(x) # {}
StatementWords(x) ==
    CASE x.pending.kind = "insert" -> InsertStatementWords
      [] x.pending.kind = "update" -> UpdateStatementWords(Changed(x))
      [] OTHER -> {"delete"}
\* the unique key a concurrent writer can take first
Contended(x, column) ==
    \/ x.pending.kind = "insert"
    \/ x.pending.kind = "update" /\ column \in Changed(x)

\* the commit that fails with e; the failure the store had in store is spent
CommitFails(y, e) ==
    [x |-> [y EXCEPT !.plan.then = "ok"], exc |-> e, obj |-> y.pending.attrs]
\* the transaction ends with a flush that went through
Committed(f) ==
    IF Raised(f.exc) THEN f
    ELSE [f EXCEPT !.x = [@ EXCEPT !.pending = NoPending, !.intx = FALSE]]
\* the flush and COMMIT of the session y.  A statement that writes can be
\* the victim of a deadlock or find its unique key taken by a writer that
\* got in first; a connection in use can be lost.
FlushAndCommit(y) ==
    IF Writes(y) /\ y.plan.dead > 0
    THEN [x |-> [y EXCEPT !.plan.dead = @ - 1],
          exc |-> Exc("OperationalError", {"deadlock"} \cup StatementWords(y)),
          obj |-> y.pending.attrs]
    ELSE IF (y.intx \/ Writes(y)) /\ y.plan.then = "operr"
    THEN CommitFails(y, Exc("OperationalError", {"lost", "connection"}))
    ELSE IF y.plan.then = "dup_email" /\ Contended(y, "email")
    THEN CommitFails(y, Exc("IntegrityError", {"duplicate", "email"} \cup StatementWords(y)))
    ELSE IF y.plan.then = "dup_username" /\ Contended(y, "username")
    THEN CommitFails(y, Exc("IntegrityError",
                            {"duplicate", "username"} \cup StatementWords(y)))
    ELSE Committed(Flush(y))

\* Session.commit(): the unit of work is flushed and committed
commit(x) == FlushAndCommit(Log([x EXCEPT !.commits = @ + 1], <<"commit", "">>))

\* Session.rollback(): the unit of work is dropped, the transaction ends
rollback(x) ==
    [x EXCEPT !.rollbacks = @ + 1, !.pending = NoPending, !.intx = FALSE]

(***************************************************************************)
(* app/services/user.py: the cached projection and its validation.         *)
(***************************************************************************)
CacheFields == {"id", "email", "username", "full_name", "is_active",
                "is_superuser", "created_at", "updated_at", "_cache_version"}

_user_to_dict(user) ==
    [f \in CacheFields |->
        IF f = "_cache_version" THEN PyStr("1.1")
        ELSE IF f \in {"created_at", "updated_at"} THEN str(Attr(user, f))
        ELSE Attr(user, f)]

_validate_cache_data(data) ==
    /\ data.t = "dict"
    /\ LET d == data.items[1] IN
       /\ CacheFields \subseteq DOMAIN d
       /\ isinstance_int(d["id"])
       /\ isinstance_str(d["email"])
       /\ isinstance_str(d["username"])
       /\ isinstance_str(d["_cache_version"])
       /\ d["_cache_version"][2] \in {"1.0", "1.1"}

\* what a repository function hands back: the context, the exception that
\* left it (if any), and the instances returned (none, one, or a list)
Return(x, users) == [x |-> x, exc |-> NoExc, users |-> users, flag |-> FALSE]
ReturnBool(x, b) == [x |-> x, exc |-> NoExc, users |-> <<>>, flag |-> b]
Raise(x, e) == [x |-> x, exc |-> e, users |-> <<>>, flag |-> FALSE]

DeserializeError == Exc("ValueError", {"could", "not", "deserialize"})

\* get_user that caches the row whether or not the cache answered
get_user_fetched_always(q, user_id, redis_available) ==
    IF q.found # <<>>
    THEN Return(cache_set(q.x, USER_KEY(PyInt(user_id)),
                          JDict(_user_to_dict(q.found[1])), USER_CACHE_EXPIRE).x,
                q.found)
    ELSE Return(q.x, q.found)

\* get_user, lines 279-290: the row the query found goes to the cache if
\* the cache answered
get_user_fetched(q, user_id, redis_available) ==
    IF q.found # <<>> /\ redis_available
    THEN Return(cache_set(q.x, USER_KEY(PyInt(user_id)),
                          JDict(_user_to_dict(q.found[1])), USER_CACHE_EXPIRE).x,
                q.found)
    ELSE Return(q.x, q.found)

get_user_from_db(x, user_id, redis_available) ==
    get_user_fetched(query_first(x, RowsWhere(x, "id", PyInt(user_id), 0)),
                     user_id, redis_available)

\* get_user that consults the cache and then queries the store all the same
get_user_requery(x, user_id) ==
    LET g == cache_get(x, USER_KEY(PyInt(user_id))) IN
    IF g.err = "ValueError" THEN Raise(g.x, DeserializeError)
    ELSE get_user_from_db(g.x, user_id, g.err = "")

\* get_user that leaves an entry it rejected where it is
get_user_cached_keep(g, user_id) ==
    IF g.err = "ValueError" THEN Raise(g.x, DeserializeError)
    ELSE IF /\ Truthy(g.val)
            /\ _validate_cache_data(g.val)
            /\ ~UserCtorRaises(Remove(g.val.items[1], {"_cache_version"}))
    THEN Return(g.x, <<UserCtor(Remove(g.val.items[1], {"_cache_version"}))>>)
    ELSE get_user_from_db(g.x, user_id, g.err = "")

\* get_user, lines 254-277: what is done with the answer g of the cache
get_user_cached(g, user_id) ==
    IF g.err = "ValueError" THEN Raise(g.x, DeserializeError)
    ELSE IF Truthy(g.val)
    THEN IF /\ _validate_cache_data(g.val)
            /\ ~UserCtorRaises(Remove(g.val.items[1], {"_cache_version"}))
         THEN Return(g.x, <<UserCtor(Remove(g.val.items[1], {"_cache_version"}))>>)
         ELSE get_user_from_db(cache_delete(g.x, USER_KEY(PyInt(user_id))).x,
                               user_id, g.err = "")
    ELSE get_user_from_db(g.x, user_id, g.err = "")

get_user(x, user_id) ==
    get_user_cached(cache_get(x, USER_KEY(PyInt(user_id))), user_id)

\* User(**cached_user) of the by-email hit: the whole cached document
CtorFromDocRaises(j) == j.t # "dict" \/ UserCtorRaises(j.items[1])

\* get_user_by_email, lines 321-341: the row the query found is cached
\* under both keys
get_user_by_email_fetched(q, email) ==
    LET user_dict == JDict(_user_to_dict(q.found[1]))
        s1 == cache_set(q.x, USER_EMAIL_KEY(PyStr(email)), user_dict, USER_CACHE_EXPIRE)
        s2 == cache_set(s1.x, USER_KEY(Attr(q.found[1], "id")), user_dict,
                        USER_CACHE_EXPIRE)
    IN IF q.found # <<>> THEN Return(s2.x, q.found) ELSE Return(q.x, q.found)

get_user_by_email_from_db(x, email) ==
    get_user_by_email_fetched(query_first(x, RowsWhere(x, "email", PyStr(email), 0)),
                              email)

\* get_user_by_email, lines 307-318: what is done with the answer g of the
\* cache
get_user_by_email_cached(g, email) ==
    IF g.err = "ValueError" THEN Raise(g.x, DeserializeError)
    ELSE IF g.err = "" /\ Truthy(g.val)
    THEN IF ~CtorFromDocRaises(g.val)
         THEN Return(g.x, <<UserCtor(g.val.items[1])>>)
         ELSE get_user_by_email_from_db(
                  cache_delete(g.x, USER_EMAIL_KEY(PyStr(email))).x, email)
    ELSE get_user_by_email_from_db(g.x, email)

get_user_by_email(x, email) ==
    get_user_by_email_cached(cache_get(x, USER_EMAIL_KEY(PyStr(email))), email)

\* Query.offset(skip).limit(limit).all(), rows in primary key order
RECURSIVE Sorted(_)
Sorted(S) == IF S = {} THEN <<>> ELSE <<Min(S)>> \o Sorted(S \ {Min(S)})
Page(seq, skip, limit) ==
    SubSeq(seq, skip + 1, IF skip + limit < Len(seq) THEN skip + limit ELSE Len(seq))

query_page(x, skip, limit) ==
    LET ids == Page(Sorted(DOMAIN x.db), skip, limit)
        y == [x EXCEPT !.queries = @ + 1, !.intx = TRUE]
    IN [x |-> y, found |-> [i \in DOMAIN ids |-> Loaded(x.db[ids[i]])]]

\* [User(**user_data) for user_data in cached_users]
ListCtorRaises(j) ==
    j.t # "list" \/ \E i \in DOMAIN j.items : UserCtorRaises(j.items[i])

\* get_users that keeps the list entry as long as a user entry
get_users_fetched_one_ttl(q, skip, limit) ==
    LET db_users == q.found
        users_data == [i \in DOMAIN db_users |-> _user_to_dict(db_users[i])]
        s1 == cache_set(q.x, USERS_LIST_KEY(skip, limit), JList(users_data),
                        USER_CACHE_EXPIRE)
        keys == {USER_KEY(Attr(db_users[i], "id")) : i \in DOMAIN db_users}
        user_cache_data ==
            [k \in keys |->
                JDict(_user_to_dict(
                    db_users[CHOOSE i \in DOMAIN db_users :
                                 USER_KEY(Attr(db_users[i], "id")) = k]))]
        s2 == cache_multi_set(s1.x, user_cache_data, USER_CACHE_EXPIRE)
    IN IF db_users # <<>> THEN Return(s2.x, db_users) ELSE Return(q.x, db_users)

\* get_users, lines 380-405: the page the query found is cached as a list
\* and row by row
get_users_fetched(q, skip, limit) ==
    LET db_users == q.found
        users_data == [i \in DOMAIN db_users |-> _user_to_dict(db_users[i])]
        s1 == cache_set(q.x, USERS_LIST_KEY(skip, limit), JList(users_data),
                        USERS_LIST_CACHE_EXPIRE)
        keys == {USER_KEY(Attr(db_users[i], "id")) : i \in DOMAIN db_users}
        user_cache_data ==
            [k \in keys |->
                JDict(_user_to_dict(
                    db_users[CHOOSE i \in DOMAIN db_users :
                                 USER_KEY(Attr(db_users[i], "id")) = k]))]
        s2 == cache_multi_set(s1.x, user_cache_data, USER_CACHE_EXPIRE)
    IN IF db_users # <<>> THEN Return(s2.x, db_users) ELSE Return(q.x, db_users)

get_users_from_db(x, skip, limit) ==
    get_users_fetched(query_page(x, skip, limit), skip, limit)

\* get_users, lines 366-377: what is done with the answer g of the cache
get_users_cached(g, skip, limit) ==
    IF g.err = "ValueError" THEN Raise(g.x, DeserializeError)
    ELSE IF g.err = "" /\ Truthy(g.val)
    THEN IF ~ListCtorRaises(g.val)
         THEN Return(g.x, [i \in DOMAIN g.val.items |-> UserCtor(g.val.items[i])])
         ELSE get_users_from_db(cache_delete(g.x, USERS_LIST_KEY(skip, limit)).x,
                                skip, limit)
    ELSE get_users_from_db(g.x, skip, limit)

\* get_users that validates its arguments after the cache lookup
get_users_checked_late(x, skip, limit) ==
    LET g == cache_get(x, USERS_LIST_KEY(skip, limit)) IN
    IF skip < 0 THEN Raise(g.x, Exc("ValueError", {"skip", "must", "be", "non-negative"}))
    ELSE IF limit <= 0 THEN Raise(g.x, Exc("ValueError", {"limit", "must", "be", "positive"}))
    ELSE get_users_cached(g, skip, limit)

get_users(x, skip, limit) ==
    IF skip < 0 THEN Raise(x, Exc("ValueError", {"skip", "must", "be", "non-negative"}))
    ELSE IF limit <= 0 THEN Raise(x, Exc("ValueError", {"limit", "must", "be", "positive"}))
    ELSE get_users_cached(cache_get(x, USERS_LIST_KEY(skip, limit)), skip, limit)

(***************************************************************************)
(* transaction_context, as the two halves of the context manager.  The     *)
(* branch is chosen on entry: a savepoint when nested is asked and the     *)
(* session is in a transaction, the session itself otherwise.              *)
(***************************************************************************)
transaction_context_enter(x, nested) == nested /\ x.intx

\* except Exception: db.rollback(); raise
RolledBackIfRaised(c) == IF Raised(c.exc) THEN [c EXCEPT !.x = rollback(@)] ELSE c

\* leaving the block with exception exc (NoExc: normally)
transaction_context_exit(x, savepoint, exc) ==
    IF savepoint
    THEN \* savepoint.rollback() on an exception, RELEASE SAVEPOINT otherwise
         [x |-> x, exc |-> exc, obj |-> x.pending.attrs]
    ELSE IF Raised(exc)
    THEN [x |-> rollback(x), exc |-> exc, obj |-> x.pending.attrs]
    ELSE RolledBackIfRaised(commit(x))

(***************************************************************************)
(* create_user, update_user, delete_user: the bodies under the decorator.  *)
(***************************************************************************)
get_password_hash(password) == PyStr("hash")

\* create_user without the handler of IntegrityError
create_user_committed_raw(out) ==
    IF Raised(out.exc) THEN Raise(out.x, out.exc)
    ELSE Return(out.x, <<Loaded(out.obj)>>)

\* create_user, lines 225-235: the commit went through, or the handlers of
\* IntegrityError and Exception
create_user_committed(out) ==
    IF out.exc.type = "IntegrityError"
    THEN Raise(rollback(out.x),
               IF "email" \in out.exc.words
               THEN Exc("ValueError", {"user", "with", "email", "exists"})
               ELSE IF "username" \in out.exc.words
               THEN Exc("ValueError", {"user", "with", "username", "exists"})
               ELSE Exc("ValueError", {"user", "with", "this", "email", "or", "username", "exists"}))
    ELSE IF Raised(out.exc) THEN Raise(out.x, out.exc)
    ELSE Return(out.x, <<Loaded(out.obj)>>)

\* create_user, lines 200-225: the instance is added, cached under both
\* keys, the lists are dropped, and the block is left
create_user_cached(x, db_user) ==
    LET added == [x EXCEPT !.pending =
                     [kind |-> "insert", id |-> 0, attrs |-> db_user.attrs]]
        user_dict == JDict(_user_to_dict(db_user))
        s1 == cache_set(added, USER_KEY(Attr(db_user, "id")), user_dict, USER_CACHE_EXPIRE)
        s2 == cache_set(s1.x, USER_EMAIL_KEY(Attr(db_user, "email")), user_dict,
                        USER_CACHE_EXPIRE)
    IN cache_clear_pattern(s2.x).x

create_user_added(x, db_user) ==
    create_user_committed(
        transaction_context_exit(create_user_cached(x, db_user), FALSE, NoExc))

\* create_user, lines 191-199: the instance made of the validated data
new_db_user(user_data) ==
    UserCtor([email |-> PyStr(lower(user_data.email)),
              username |-> PyStr(user_data.username),
              hashed_password |-> get_password_hash(user_data.password),
              full_name |-> PyStr(user_data.full_name),
              is_active |-> PyBool(user_data.is_active),
              is_superuser |-> PyBool(user_data.is_superuser)])

\* create_user that goes on whatever the username lookup found
create_user_username_unchecked(q, user_data) ==
    create_user_added(q.x, new_db_user(user_data))

\* create_user, lines 184-199: the username was looked up
create_user_username_checked(q, user_data) ==
    IF q.found # <<>>
    THEN Raise(transaction_context_exit(q.x, FALSE,
                                        Exc("ValueError", {"username", "taken"})).x,
               Exc("ValueError", {"username", "taken"}))
    ELSE create_user_added(q.x, new_db_user(user_data))

\* create_user, lines 174-183: the email was looked up
create_user_email_checked(q, user_data) ==
    IF q.found # <<>>
    THEN Raise(transaction_context_exit(q.x, FALSE,
                                        Exc("ValueError", {"email", "registered"})).x,
               Exc("ValueError", {"email", "registered"}))
    ELSE create_user_username_checked(
             query_first(q.x, RowsWhere(q.x, "username", PyStr(user_data.username), 0)),
             user_data)

create_user_body(x, user_data) ==
    create_user_email_checked(query_first(x, RowsIlike(x, user_data.email)), user_data)

\* setattr(db_user, field, value) for the fields of update_data
Setattrs(attrs, update_data) ==
    [f \in (DOMAIN attrs) \cup (DOMAIN update_data) |->
        IF f \in DOMAIN update_data THEN update_data[f] ELSE attrs[f]]

\* a cache_delete that is tried once more when it returns False
cache_delete_again(d, key) == IF d.ok THEN d ELSE cache_delete(d.x, key)
cache_delete_retry(x, key) == cache_delete_again(cache_delete(x, key), key)

\* update_user, lines 458-459: the username was looked up
update_user_username_checked(q) ==
    [x |-> q.x,
     exc |-> IF q.found # <<>> THEN Exc("ValueError", {"username", "in", "use"})
             ELSE NoExc]

\* update_user, lines 453-459: the username is validated if it is updated
update_user_check_username(x, user_id, update_data) ==
    IF "username" \in DOMAIN update_data
    THEN update_user_username_checked(
             query_first(x, RowsWhere(x, "username", update_data["username"], user_id)))
    ELSE [x |-> x, exc |-> NoExc]

\* update_user, lines 450-459: the email was looked up
update_user_email_checked(q, user_id, update_data) ==
    IF q.found # <<>>
    THEN [x |-> q.x, exc |-> Exc("ValueError", {"email", "in", "use"})]
    ELSE update_user_check_username(q.x, user_id, update_data)

\* update_user, lines 445-459: the validation in the nested block, [x, exc]
update_user_validate(x, db_user, user_id, update_data) ==
    IF "email" \in DOMAIN update_data /\ update_data["email"] # Attr(db_user, "email")
    THEN update_user_email_checked(
             query_first(x, RowsWhere(x, "email", update_data["email"], user_id)),
             user_id, update_data)
    ELSE update_user_check_username(x, user_id, update_data)

\* the nested block is left with what the validation raised
nested_exit(v, savepoint) == transaction_context_exit(v.x, savepoint, v.exc)

\* update_user, lines 466-505: the entries of the user are deleted, the new
\* ones set, the lists dropped
update_user_cache(x, user_id, old_email, new_user) ==
    LET d1 == cache_delete_retry(x, USER_KEY(PyInt(user_id)))
        d2 == cache_delete_retry(d1.x, USER_EMAIL_KEY(old_email))
        user_dict == JDict(_user_to_dict(new_user))
        s1 == cache_set(d2.x, USER_KEY(PyInt(user_id)), user_dict, USER_CACHE_EXPIRE)
        s2 == cache_set(s1.x, USER_EMAIL_KEY(Attr(new_user, "email")), user_dict,
                        USER_CACHE_EXPIRE)
    IN cache_clear_pattern(s2.x).x

\* update_user, lines 439-507: the outer block was left
update_user_committed(db_user, new_user, out) ==
    IF Raised(out.exc) THEN Raise(out.x, out.exc)
    ELSE Return(out.x, <<IF db_user.persistent THEN Loaded(out.obj) ELSE new_user>>)

\* update_user, lines 461-507: the fields are set on the instance (which is
\* dirty in the session only if it is a row of it), the cache is written and
\* the outer block is left
update_user_apply(x, db_user, new_user, user_id) ==
    update_user_committed(db_user, new_user,
        transaction_context_exit(
            update_user_cache(
                IF db_user.persistent
                THEN [x EXCEPT !.pending =
                         [kind |-> "update", id |-> user_id, attrs |-> new_user.attrs]]
                ELSE x,
                user_id, Attr(db_user, "email"), new_user),
            FALSE, NoExc))

\* update_user, lines 443-463: the nested block was left
update_user_validated(inner, db_user, user_id, update_data) ==
    IF Raised(inner.exc)
    THEN Raise(transaction_context_exit(inner.x, FALSE, inner.exc).x, inner.exc)
    ELSE update_user_apply(inner.x, db_user,
                           [db_user EXCEPT !.attrs = Setattrs(@, update_data)], user_id)

\* update_user, lines 427-443: what get_user handed back
update_user_found(g, user_id, update_data) ==
    IF Raised(g.exc) THEN g
    ELSE IF g.users = <<>> THEN Return(g.x, <<>>)
    ELSE update_user_validated(
             nested_exit(update_user_validate(g.x, g.users[1], user_id, update_data),
                         transaction_context_enter(g.x, TRUE)),
             g.users[1], user_id, update_data)

update_user_body(x, user_id, update_data) ==
    update_user_found(get_user(x, user_id), user_id, update_data)

\* delete_user, lines 530-556: the block was left; the entries of the user
\* and the lists are dropped after the commit
delete_user_committed(out, db_user, user_id) ==
    LET d1 == cache_delete(out.x, USER_KEY(PyInt(user_id)))
        d2 == cache_delete(d1.x, USER_EMAIL_KEY(Attr(db_user, "email")))
        cl == cache_clear_pattern(d2.x)
    IN IF Raised(out.exc) THEN Raise(out.x, out.exc) ELSE ReturnBool(cl.x, TRUE)

\* delete_user, lines 523-531: what get_user handed back.  Session.delete()
\* refuses an instance that is not persistent.
delete_user_found(g, user_id) ==
    IF Raised(g.exc) THEN g
    ELSE IF g.users = <<>> THEN ReturnBool(g.x, FALSE)
    ELSE delete_user_committed(
             transaction_context_exit(
                 IF g.users[1].persistent
                 THEN [g.x EXCEPT !.pending =
                          [kind |-> "delete", id |-> user_id, attrs |-> g.users[1].attrs]]
                 ELSE g.x,
                 FALSE,
                 IF g.users[1].persistent THEN NoExc
                 ELSE Exc("InvalidRequestError", {"instance", "is", "not", "persisted"})),
             g.users[1], user_id)

delete_user_body(x, user_id) == delete_user_found(get_user(x, user_id), user_id)

(***************************************************************************)
(* with_transaction_retry                                                  *)
(***************************************************************************)
\* func(*args, **kwargs): one run of the decorated function; the order of
\* the call notes where each run begins
Body(func, x, args) ==
    LET y == Log(x, <<"attempt", "">>) IN
    CASE func = "create_user" -> create_user_body(y, args.user_data)
      [] func = "update_user" -> update_user_body(y, args.user_id, args.update_data)
      [] func = "delete_user" -> delete_user_body(y, args.user_id)

RECURSIVE wrapper(_, _, _, _)

\* the wrapper with the bound tested one retry late
RECURSIVE wrapper_one_more(_, _, _, _)
wrapper_one_more(func, x, args, retries) ==
    LET r == Body(func, [x EXCEPT !.attempts = @ + 1], args) IN
    IF r.exc.type = "OperationalError"
    THEN IF retries > MAX_RETRIES \/ "deadlock" \notin r.exc.words
         THEN r
         ELSE wrapper_one_more(func, r.x, args, retries + 1)
    ELSE r

\* the wrapper retrying every operational error
RECURSIVE wrapper_any_operational(_, _, _, _)
wrapper_any_operational(func, x, args, retries) ==
    LET r == Body(func, [x EXCEPT !.attempts = @ + 1], args) IN
    IF r.exc.type = "OperationalError"
    THEN IF retries >= MAX_RETRIES
         THEN r
         ELSE wrapper_any_operational(func, r.x, args, retries + 1)
    ELSE r

\* except OperationalError, lines 81-88: r is what the attempt handed back
wrapper_except(func, r, args, retries) ==
    IF r.exc.type = "OperationalError"
    THEN IF retries >= MAX_RETRIES \/ "deadlock" \notin r.exc.words
         THEN r
         ELSE wrapper(func, r.x, args, retries + 1)
    ELSE r

wrapper(func, x, args, retries) ==
    wrapper_except(func, Body(func, [x EXCEPT !.attempts = @ + 1], args), args, retries)

with_transaction_retry(func, x, args) == wrapper(func, x, args, 0)

NoData == [email |-> "", username |-> "", password |-> "", full_name |-> "",
           is_active |-> TRUE, is_superuser |-> FALSE]
create_user(x, user_data) ==
    with_transaction_retry("create_user", x,
        [user_id |-> 0, user_data |-> user_data, update_data |-> EmptyDict])
update_user(x, user_id, update_data) ==
    with_transaction_retry("update_user", x,
        [user_id |-> user_id, user_data |-> NoData, update_data |-> update_data])
delete_user(x, user_id) ==
    with_transaction_retry("delete_user", x,
        [user_id |-> user_id, user_data |-> NoData, update_data |-> EmptyDict])

(***************************************************************************)
(* What a call is given.                                                   *)
(***************************************************************************)
\* which cache commands reach Redis during the call, and how many commands
\* fail before that (an outage that ends while the call runs)
AllUp == [get |-> TRUE, set |-> TRUE, mset |-> TRUE, del |-> TRUE, outage |-> 0]
AllDown == [get |-> FALSE, set |-> FALSE, mset |-> FALSE, del |-> FALSE, outage |-> 0]
Recovering == [AllUp EXCEPT !.outage = Outage]
CacheModes == {AllUp, AllDown,
               [AllUp EXCEPT !.get = FALSE],
               [AllUp EXCEPT !.set = FALSE, !.mset = FALSE],
               [AllUp EXCEPT !.del = FALSE]}
\* one of the two writes of a listing fails: the SETEX of the list entry, or
\* the pipeline of the primary entries
ListingModes == CacheModes \cup {[AllUp EXCEPT !.set = FALSE],
                                 [AllUp EXCEPT !.mset = FALSE]}

\* what the store reports to the commits of the call: dead deadlocks, then
\* one other failure or none
NoFailure == [dead |-> 0, then |-> "ok"]
Plans == {[dead |-> d, then |-> "ok"] : d \in {0, 1, 2, MaxDead}}
         \cup {[dead |-> 0, then |-> t] : t \in {"operr", "dup_email", "dup_username"}}

\* what a writing call is run with: the cache mode, the store's failures,
\* and whether the caller's session is already in a transaction
Envs == {e \in [up : CacheModes \cup {Recovering}, plan : Plans, intx : BOOLEAN] :
            \/ e.plan = NoFailure /\ e.up # Recovering
            \/ e.plan # NoFailure /\ e.up \in {AllUp, AllDown} /\ ~e.intx
            \/ e.plan.dead \in {1, 2} /\ e.up = Recovering /\ ~e.intx}

Ids == 1..MaxId
UserData(email, username) ==
    [email |-> email, username |-> username, password |-> "pw",
     full_name |-> "n1", is_active |-> TRUE, is_superuser |-> FALSE]
UserDatas == {UserData("a@x", "u1"), UserData("A@x", "u2"),
              UserData("b@x", "u1"), UserData("b@x", "u2")}
\* UserUpdate.model_dump(exclude_unset=True)
UpdateDatas ==
    {[f \in {"email"} |-> PyStr(e)] : e \in {"b@x", "A@x"}}
    \cup {[f \in {"full_name"} |-> PyStr("n2")]}
    \cup {[f \in {"username"} |-> PyStr("u2")]}
Skips == {-1, 0, 1}
Limits == {0, 1}

\* the context of a call made in the current state
Now(up, plan, intx) == Ctx(db, cache, next_id, now, up, plan, intx)

Idle == [op |-> "idle"]
Call(op, user_id, data, email, skip, limit, pre, out) ==
    [op |-> op, user_id |-> user_id, data |-> data, email |-> email,
     skip |-> skip, limit |-> limit, pre |-> pre, out |-> out]

\* the call returns: its effects on the store and the keyspace stand
Returns(call) ==
    /\ last = Idle
    /\ steps < MaxSteps
    /\ steps' = steps + 1
    /\ db' = call.out.x.db
    /\ cache' = call.out.x.cache
    /\ next_id' = call.out.x.next_id
    /\ now' = call.out.x.now
    /\ last' = call
    /\ UNCHANGED tx

(***************************************************************************)
(* The state after construction: an empty table and an empty keyspace.     *)
(***************************************************************************)
Init ==
    /\ db = [i \in {} |-> EmptyDict]
    /\ cache = [k \in {} |-> [val |-> JNone, ttl |-> 0]]
    /\ next_id = 1
    /\ now = 0
    /\ steps = 0
    /\ last = Idle
    /\ tx = <<>>

CreateUser(user_data, up, plan, intx) ==
    /\ next_id <= MaxId
    /\ LET pre == Now(up, plan, intx) IN
       Returns(Call("create_user", 0, user_data, "", 0, 0, pre,
                    create_user(pre, user_data)))

GetUser(user_id, up) ==
    LET pre == Now(up, NoFailure, FALSE) IN
    Returns(Call("get_user", user_id, EmptyDict, "", 0, 0, pre, get_user(pre, user_id)))

GetUserByEmail(email, up) ==
    LET pre == Now(up, NoFailure, FALSE) IN
    Returns(Call("get_user_by_email", 0, EmptyDict, email, 0, 0, pre,
                 get_user_by_email(pre, email)))

GetUsers(skip, limit, up) ==
    LET pre == Now(up, NoFailure, FALSE) IN
    Returns(Call("get_users", 0, EmptyDict, "", skip, limit, pre,
                 get_users(pre, skip, limit)))

UpdateUser(user_id, update_data, up, plan, intx) ==
    LET pre == Now(up, plan, intx) IN
    Returns(Call("update_user", user_id, update_data, "", 0, 0, pre,
                 update_user(pre, user_id, update_data)))

DeleteUser(user_id, up, plan, intx) ==
    LET pre == Now(up, plan, intx) IN
    Returns(Call("delete_user", user_id, EmptyDict, "", 0, 0, pre,
                 delete_user(pre, user_id)))

\* the caller has taken the result; the next call can be made
Continue ==
    /\ last # Idle
    /\ last' = Idle
    /\ UNCHANGED <<db, cache, next_id, now, steps, tx>>

\* the TTL of an entry runs out
Expire(key) ==
    /\ last = Idle
    /\ steps < MaxSteps
    /\ key \in DOMAIN cache
    /\ cache' = Remove(cache, {key})
    /\ steps' = steps + 1
    /\ UNCHANGED <<db, next_id, now, last, tx>>

\* entries other writers leave in the keyspace for a row whose projection is
\* cur: what another release of the service cached (an older version tag, a
\* field User does not have), a damaged copy (a field lost, all fields lost,
\* a value of another type), or text that is no JSON
ForeignDocsOf(cur) ==
    {JDict([cur EXCEPT !["_cache_version"] = PyStr(v)]) : v \in {"1.0", "0.9"}}
    \cup {JDict(Put(cur, "last_login", PyNone)),
          JDict(Remove(cur, {"updated_at"})),
          JDict([cur EXCEPT !["id"] = PyStr("not_an_integer")]),
          JDict([cur EXCEPT !["id"] = PyBool(TRUE)]),
          JDict(EmptyDict),
          JRaw}
ForeignDocs(user_id) == ForeignDocsOf(_user_to_dict(Loaded(db[user_id])))

\* a list entry of another release: the projection of the row without the
\* version tag
ForeignList(user_id) ==
    JList(<<Remove(_user_to_dict(Loaded(db[user_id])), {"_cache_version"})>>)

ForeignWrite(key, doc) ==
    /\ last = Idle
    /\ steps < MaxSteps
    /\ cache' = Put(cache, key, [val |-> doc, ttl |-> USER_CACHE_EXPIRE])
    /\ steps' = steps + 1
    /\ UNCHANGED <<db, next_id, now, last, tx>>

Next ==
    \/ \E d \in UserDatas, e \in Envs : CreateUser(d, e.up, e.plan, e.intx)
    \/ \E i \in Ids, up \in CacheModes : GetUser(i, up)
    \/ \E m \in Emails, up \in CacheModes : GetUserByEmail(m, up)
    \/ \E s \in Skips, l \in Limits, up \in ListingModes : GetUsers(s, l, up)
    \/ \E i \in Ids, u \in UpdateDatas, e \in Envs : UpdateUser(i, u, e.up, e.plan, e.intx)
    \/ \E i \in Ids, e \in Envs : DeleteUser(i, e.up, e.plan, e.intx)
    \/ Continue
    \/ \E k \in DOMAIN cache : Expire(k)
    \/ \E i \in DOMAIN db : \E doc \in ForeignDocs(i) :
          ForeignWrite(USER_KEY(PyInt(i)), doc)
    \/ \E i \in DOMAIN db : ForeignWrite(USER_EMAIL_KEY(db[i]["email"]), JRaw)
    \/ ForeignWrite(USERS_LIST_KEY(0, 1), JRaw)
    \/ \E i \in DOMAIN db : ForeignWrite(USERS_LIST_KEY(0, 1), ForeignList(i))

Spec == Init /\ [][Next]_vars

(***************************************************************************)
(* Calls in flight.  Each request has a session and a transaction of its   *)
(* own; the rows and the keyspace are shared.  A create_user call is the   *)
(* sequence of its statements: the two pre-checks, db.add with the cache   *)
(* writes, and the commit that flushes the INSERT.                         *)
(***************************************************************************)
Callers == {1, 2}

\* what the queries of a transaction read after its first one: the snapshot
\* of the first (REPEATABLE READ, the isolation level of the engine), or
\* what is committed by then (the SQLite engine of the tests)
Isolations == {"snapshot", "latest"}

\* two calls for the same email, written alike or not
RacingPairs == {pair \in UserDatas \X UserDatas : lower(pair[1].email) = lower(pair[2].email)}

InFlight(user_data, up, isolation) ==
    [pc |-> "email", data |-> user_data, isolation |-> isolation,
     x |-> Now(up, NoFailure, FALSE), snap |-> db,
     out |-> Return(Now(up, NoFailure, FALSE), <<>>)]

InitRace ==
    /\ db = [i \in {} |-> EmptyDict]
    /\ cache = [k \in {} |-> [val |-> JNone, ttl |-> 0]]
    /\ next_id = 1
    /\ now = 0
    /\ steps = 0
    /\ last = Idle
    /\ tx \in {[p \in Callers |-> InFlight(pair[p], up, isolation)] :
                  pair \in RacingPairs, up \in {AllUp, AllDown}, isolation \in Isolations}

\* the session of caller p at its next statement, reading the rows seen
Session(p, seen) ==
    [tx[p].x EXCEPT !.db = seen, !.cache = cache, !.next_id = next_id, !.now = now]
Seen(p) == IF tx[p].isolation = "snapshot" THEN tx[p].snap ELSE db

\* the call hands back r
Done(call, r) == [call EXCEPT !.pc = "done", !.x = r.x, !.out = r]

\* create_user, lines 171-178
RaceCheckEmail(p) ==
    /\ tx[p].pc = "email"
    /\ LET q == query_first(Session(p, db), RowsIlike(Session(p, db), tx[p].data.email))
       IN tx' = [tx EXCEPT ![p] =
                    IF q.found # <<>> THEN Done(@, create_user_email_checked(q, @.data))
                    ELSE [@ EXCEPT !.pc = "username", !.x = q.x, !.snap = db]]
    /\ UNCHANGED <<db, cache, next_id, now, steps, last>>

\* create_user, lines 181-188
RaceCheckUsername(p) ==
    /\ tx[p].pc = "username"
    /\ LET q == query_first(Session(p, Seen(p)),
                            RowsWhere(Session(p, Seen(p)), "username",
                                      PyStr(tx[p].data.username), 0))
       IN tx' = [tx EXCEPT ![p] =
                    IF q.found # <<>> THEN Done(@, create_user_username_checked(q, @.data))
                    ELSE [@ EXCEPT !.pc = "add", !.x = q.x]]
    /\ UNCHANGED <<db, cache, next_id, now, steps, last>>

\* create_user, lines 191-223
RaceAdd(p) ==
    /\ tx[p].pc = "add"
    /\ LET y == create_user_cached(Session(p, db), new_db_user(tx[p].data))
       IN /\ tx' = [tx EXCEPT ![p].pc = "commit", ![p].x = y]
          /\ cache' = y.cache
    /\ UNCHANGED <<db, next_id, now, steps, last>>

\* create_user, lines 225-235, on leaving transaction_context
RaceCommit(p) ==
    /\ tx[p].pc = "commit"
    /\ LET r == create_user_committed(
                    transaction_context_exit(Session(p, db), FALSE, NoExc))
       IN /\ tx' = [tx EXCEPT ![p] = Done(@, r)]
          /\ db' = r.x.db
          /\ next_id' = r.x.next_id
          /\ now' = r.x.now
    /\ UNCHANGED <<cache, steps, last>>

NextRace ==
    \E p \in Callers :
        \/ RaceCheckEmail(p)
        \/ RaceCheckUsername(p)
        \/ RaceAdd(p)
        \/ RaceCommit(p)

SpecRace == InitRace /\ [][NextRace]_vars

(***************************************************************************)
(* app/core/database.py: the context manager transaction(session,          *)
(* retries=n) around a block that changes a stored row.  The function is a *)
(* generator under @contextmanager: __enter__ runs it to its yield, and    *)
(* __exit__ resumes it once, with next() when the block returned and with  *)
(* throw(e) when the block raised e, and expects it to finish; a generator *)
(* that yields again is a RuntimeError, and the block is not run again.    *)
(***************************************************************************)
Retries == 0..MAX_RETRIES
\* what the block does: it changes an attribute of row 1; it flushes the
\* change itself, so that its statement is the one that fails; it raises an
\* error of its own; it does nothing
Blocks == {"setattr", "flush", "raise", "pass"}

\* the table after create_user of one user on an empty table
OneRow == create_user(Ctx([i \in {} |-> EmptyDict],
                          [k \in {} |-> [val |-> JNone, ttl |-> 0]], 1, 0, AllDown,
                          NoFailure, FALSE), UserData("a@x", "u1")).x.db

\* the block, run in session x: [x, exc]
with_block(x, block) ==
    LET staged == [x EXCEPT !.intx = TRUE,
                            !.pending = [kind |-> "update", id |-> 1,
                                         attrs |-> [x.db[1] EXCEPT
                                                       !["full_name"] = PyStr("n2")]]]
    IN
    CASE block = "setattr" -> [x |-> staged, exc |-> NoExc]
      [] block = "flush" ->
           IF staged.plan.dead > 0
           THEN [x |-> [staged EXCEPT !.plan.dead = @ - 1],
                 exc |-> Exc("OperationalError", {"deadlock"} \cup StatementWords(staged))]
           ELSE IF staged.plan.then = "operr"
           THEN [x |-> [staged EXCEPT !.plan.then = "ok"],
                 exc |-> Exc("OperationalError", {"lost", "connection"})]
           ELSE [x |-> staged, exc |-> NoExc]
      [] block = "raise" -> [x |-> x, exc |-> Exc("ValueError", {"invalid"})]
      [] OTHER -> [x |-> x, exc |-> NoExc]

\* transaction, lines 93-106: the except clauses.  at: where the generator
\* is afterwards, at its yield again (continue, and attempt <= retries) or
\* left by the exception
transaction_except(x, e, attempt, retries) ==
    IF e.type \in {"OperationalError", "DBAPIError"}
    THEN IF attempt < retries /\ "deadlock" \in e.words
         THEN [x |-> rollback(x), attempt |-> attempt + 1, at |-> "yield", exc |-> NoExc]
         ELSE [x |-> rollback(x), attempt |-> attempt, at |-> "raised", exc |-> e]
    ELSE IF e.type \in {"IntegrityError", "InvalidRequestError"}
    THEN [x |-> rollback(x), attempt |-> attempt, at |-> "raised", exc |-> e]
    ELSE [x |-> x, attempt |-> attempt, at |-> "raised", exc |-> e]

\* transaction, lines 90-92: the generator resumed after its yield
transaction_resumed(x, e, attempt, retries) ==
    IF Raised(e) THEN transaction_except(x, e, attempt, retries)
    ELSE LET c == commit(x) IN
         IF Raised(c.exc) THEN transaction_except(c.x, c.exc, attempt, retries)
         ELSE [x |-> c.x, attempt |-> attempt, at |-> "returned", exc |-> NoExc]

\* with transaction(session, retries=retries): block.  The generator is at
\* its first yield with attempt = 0 when the block runs; __exit__ resumes it
\* once.
transaction(x, block, retries, attempt) ==
    LET b == with_block([x EXCEPT !.attempts = @ + 1], block)
        g == transaction_resumed(b.x, b.exc, attempt, retries)
    IN IF g.at = "yield"
       THEN [x |-> g.x, exc |-> Exc("RuntimeError", {"generator", "didn't", "stop"})]
       ELSE [x |-> g.x, exc |-> g.exc]

\* a request about to enter the with statement
InitTransaction ==
    /\ db = OneRow
    /\ cache = [k \in {} |-> [val |-> JNone, ttl |-> 0]]
    /\ next_id = 2
    /\ now = 1
    /\ steps = 0
    /\ last = Idle
    /\ tx \in {<<[block |-> b, retries |-> n, plan |-> plan]>> :
                  b \in Blocks, n \in Retries, plan \in Plans}

Transaction ==
    /\ tx # <<>>
    /\ last = Idle
    /\ LET pre == Now(AllDown, tx[1].plan, FALSE)
           out == transaction(pre, tx[1].block, tx[1].retries, 0)
       IN /\ db' = out.x.db
          /\ now' = out.x.now
          /\ last' = [op |-> "transaction", block |-> tx[1].block,
                      retries |-> tx[1].retries, pre |-> pre, out |-> out]
    /\ steps' = steps + 1
    /\ tx' = <<>>
    /\ UNCHANGED <<cache, next_id>>

SpecTransaction == InitTransaction /\ [][Transaction]_vars

(***************************************************************************)
(* get_user(1) and delete_user(1) in flight together, each in a session of *)
(* its own, on a stored row 1.  get_user is the sequence of its cache read *)
(* (with the delete of an entry it rejects), its query and its cache       *)
(* write; delete_user is its get_user, its commit and its cache deletes.   *)
(***************************************************************************)
\* the request of a caller, before its first statement
Request(up) ==
    [pc |-> "start", x |-> Now(up, NoFailure, FALSE), found |-> <<>>,
     redis_available |-> TRUE, out |-> Return(Now(up, NoFailure, FALSE), <<>>)]

\* the keyspace before the two calls: empty, or with the entry of row 1 as
\* an earlier get_user(1) wrote it
InitReadDelete ==
    /\ db = OneRow
    /\ cache \in {[k \in {} |-> [val |-> JNone, ttl |-> 0]],
                  get_user(Ctx(OneRow, [k \in {} |-> [val |-> JNone, ttl |-> 0]],
                               2, 1, AllUp, NoFailure, FALSE), 1).x.cache}
    /\ next_id = 2
    /\ now = 1
    /\ steps = 0
    /\ last = Idle
    /\ tx \in {[p \in {"get_user", "delete_user"} |-> Request(up)] : up \in CacheModes}

\* get_user, lines 250-277: the cache is read; a hit is returned, an entry
\* that is rejected is deleted
ReadCache ==
    /\ tx["get_user"].pc = "start"
    /\ LET g == cache_get(Session("get_user", db), USER_KEY(PyInt(1)))
           hit == /\ Truthy(g.val)
                  /\ _validate_cache_data(g.val)
                  /\ ~UserCtorRaises(Remove(g.val.items[1], {"_cache_version"}))
           y == IF Truthy(g.val) THEN cache_delete(g.x, USER_KEY(PyInt(1))).x ELSE g.x
       IN IF g.err = "ValueError" \/ hit
          THEN /\ tx' = [tx EXCEPT !["get_user"] = Done(@, get_user_cached(g, 1))]
               /\ UNCHANGED cache
          ELSE /\ tx' = [tx EXCEPT !["get_user"] =
                            [@ EXCEPT !.pc = "query", !.x = y,
                                      !.redis_available = (g.err = "")]]
               /\ cache' = y.cache
    /\ UNCHANGED <<db, next_id, now, steps, last>>

\* get_user, line 280
ReadQuery ==
    /\ tx["get_user"].pc = "query"
    /\ LET q == query_first(Session("get_user", db),
                            RowsWhere(Session("get_user", db), "id", PyInt(1), 0))
       IN tx' = [tx EXCEPT !["get_user"] =
                    [@ EXCEPT !.pc = "set", !.x = q.x, !.found = q.found]]
    /\ UNCHANGED <<db, cache, next_id, now, steps, last>>

\* get_user, lines 281-290
ReadSet ==
    /\ tx["get_user"].pc = "set"
    /\ LET r == get_user_fetched([x |-> Session("get_user", db),
                                  found |-> tx["get_user"].found],
                                 1, tx["get_user"].redis_available)
       IN /\ tx' = [tx EXCEPT !["get_user"] = Done(@, r)]
          /\ cache' = r.x.cache
    /\ UNCHANGED <<db, next_id, now, steps, last>>

\* delete_user, lines 523-528
DeleteGet ==
    /\ tx["delete_user"].pc = "start"
    /\ LET g == get_user(Session("delete_user", db), 1)
       IN /\ tx' = [tx EXCEPT !["delete_user"] =
                       IF Raised(g.exc) THEN Done(@, g)
                       ELSE IF g.users = <<>> THEN Done(@, ReturnBool(g.x, FALSE))
                       ELSE [@ EXCEPT !.pc = "commit", !.x = g.x, !.found = g.users]]
          /\ cache' = g.x.cache
    /\ UNCHANGED <<db, next_id, now, steps, last>>

\* delete_user, lines 530-531: db.delete(db_user) and the commit on leaving
\* the block
DeleteCommit ==
    /\ tx["delete_user"].pc = "commit"
    /\ LET u == tx["delete_user"].found[1]
           out == transaction_context_exit(
                      IF u.persistent
                      THEN [Session("delete_user", db) EXCEPT !.pending =
                               [kind |-> "delete", id |-> 1, attrs |-> u.attrs]]
                      ELSE Session("delete_user", db),
                      FALSE,
                      IF u.persistent THEN NoExc
                      ELSE Exc("InvalidRequestError", {"instance", "is", "not", "persisted"}))
       IN /\ tx' = [tx EXCEPT !["delete_user"] =
                       IF Raised(out.exc) THEN Done(@, Raise(out.x, out.exc))
                       ELSE [@ EXCEPT !.pc = "cache", !.x = out.x]]
          /\ db' = out.x.db
    /\ UNCHANGED <<cache, next_id, now, steps, last>>

\* delete_user, lines 533-556
DeleteCache ==
    /\ tx["delete_user"].pc = "cache"
    /\ LET r == delete_user_committed(
                    [x |-> Session("delete_user", db), exc |-> NoExc],
                    tx["delete_user"].found[1], 1)
       IN /\ tx' = [tx EXCEPT !["delete_user"] = Done(@, r)]
          /\ cache' = r.x.cache
    /\ UNCHANGED <<db, next_id, now, steps, last>>

NextReadDelete ==
    \/ ReadCache
    \/ ReadQuery
    \/ ReadSet
    \/ DeleteGet
    \/ DeleteCommit
    \/ DeleteCache

SpecReadDelete == InitReadDelete /\ [][NextReadDelete]_vars

(***************************************************************************)
(* The adapter called on its own: every function of app/core/cache.py, on  *)
(* a keyspace that other writers share.                                    *)
(***************************************************************************)
CounterKey == <<"counter", "hits">>
AdapterKeys == {USER_KEY(PyInt(1)), USERS_LIST_KEY(0, 1), CounterKey}
\* the list entries other writers set
ListKeys == {USERS_LIST_KEY(0, 1), USERS_LIST_KEY(1, 1)}
\* a value json.dumps accepts, and one it rejects (it holds a datetime)
Plain == JDict([id |-> PyInt(1)])
Undumpable == JDict([created_at |-> PyDatetime(0)])
\* texts another writer leaves: no JSON, the empty text, null
ForeignTexts == {JRaw, JEmpty, JNull}
\* the arguments of cache_multi_set
MultiSetDatas ==
    {[k \in S |-> Plain] : S \in SUBSET {USER_KEY(PyInt(1)), USERS_LIST_KEY(0, 1)}}
    \cup {[k \in {USER_KEY(PyInt(1)), USERS_LIST_KEY(0, 1)} |->
              IF k = USER_KEY(PyInt(1)) THEN Undumpable ELSE Plain]}

AdapterCall(op, key, keys, value, pre, out) ==
    [op |-> op, key |-> key, keys |-> keys, value |-> value, pre |-> pre, out |-> out]

CacheGet(key, up) ==
    LET pre == Now(up, NoFailure, FALSE) IN
    Returns(AdapterCall("cache_get", key, {}, JNone, pre, cache_get(pre, key)))
CacheMultiGet(keys, up) ==
    LET pre == Now(up, NoFailure, FALSE) IN
    Returns(AdapterCall("cache_multi_get", <<>>, keys, JNone, pre,
                        cache_multi_get(pre, keys)))
CacheSet(key, value, up) ==
    LET pre == Now(up, NoFailure, FALSE) IN
    Returns(AdapterCall("cache_set", key, {}, value, pre,
                        cache_set(pre, key, value, USER_CACHE_EXPIRE)))
CacheDelete(key, up) ==
    LET pre == Now(up, NoFailure, FALSE) IN
    Returns(AdapterCall("cache_delete", key, {}, JNone, pre, cache_delete(pre, key)))
CacheExists(key, up) ==
    LET pre == Now(up, NoFailure, FALSE) IN
    Returns(AdapterCall("cache_exists", key, {}, JNone, pre, cache_exists(pre, key)))
CacheMultiSet(data, up) ==
    LET pre == Now(up, NoFailure, FALSE) IN
    Returns(AdapterCall("cache_multi_set", <<>>, DOMAIN data, data, pre,
                        cache_multi_set(pre, data, USER_CACHE_EXPIRE)))
\* cache_clear_pattern runs as its two commands: KEYS, and DEL of the keys
\* KEYS answered; other writers act on the keyspace in between.  The call
\* records the keys of the scan and the keyspace the DEL found (at).
ClearCall(keys, pre, at, out) ==
    [op |-> "cache_clear_pattern", key |-> <<>>, keys |-> keys, value |-> JNone,
     pre |-> pre, at |-> at, out |-> out]
CacheClearPatternKeys(up) ==
    /\ tx = <<>>
    /\ LET pre == Now(up, NoFailure, FALSE)
           keys == cache_clear_pattern_keys(pre)
       IN IF Reached(pre, "del") /\ keys # {}
          THEN /\ last = Idle
               /\ steps < MaxSteps
               /\ tx' = <<[pre |-> pre, keys |-> keys,
                           x |-> [Sent(pre) EXCEPT !.cclears = @ + 1]]>>
               /\ UNCHANGED <<db, cache, next_id, now, steps, last>>
          ELSE Returns(ClearCall(keys, pre, cache, cache_clear_pattern(pre)))
CacheClearPatternDelete ==
    /\ tx # <<>>
    /\ last = Idle
    /\ steps < MaxSteps
    /\ LET out == cache_clear_pattern_delete([tx[1].x EXCEPT !.cache = cache],
                                             tx[1].keys)
       IN /\ cache' = out.x.cache
          /\ last' = ClearCall(tx[1].keys, tx[1].pre, cache, out)
    /\ steps' = steps + 1
    /\ tx' = <<>>
    /\ UNCHANGED <<db, next_id, now>>
CacheIncrement(key, up) ==
    LET pre == Now(up, NoFailure, FALSE) IN
    Returns(AdapterCall("cache_increment", key, {}, JNone, pre,
                        cache_increment(pre, key, 1)))
CheckRedisHealth(up) ==
    LET pre == Now(up, NoFailure, FALSE) IN
    Returns(AdapterCall("check_redis_health", <<>>, {}, JNone, pre,
                        check_redis_health(pre)))

NextCache ==
    \/ \E k \in AdapterKeys, up \in CacheModes : CacheGet(k, up)
    \/ \E ks \in SUBSET AdapterKeys, up \in CacheModes : CacheMultiGet(ks, up)
    \/ \E k \in AdapterKeys, v \in {Plain, Undumpable}, up \in CacheModes :
          CacheSet(k, v, up)
    \/ \E k \in AdapterKeys, up \in CacheModes : CacheDelete(k, up)
    \/ \E k \in AdapterKeys, up \in CacheModes : CacheExists(k, up)
    \/ \E data \in MultiSetDatas, up \in CacheModes : CacheMultiSet(data, up)
    \/ \E up \in CacheModes : CacheClearPatternKeys(up)
    \/ CacheClearPatternDelete
    \/ \E k \in AdapterKeys, up \in CacheModes : CacheIncrement(k, up)
    \/ \E up \in CacheModes : CheckRedisHealth(up)
    \/ Continue
    \/ \E k \in DOMAIN cache : Expire(k)
    \/ \E k \in AdapterKeys, text \in ForeignTexts : ForeignWrite(k, text)
    \/ \E k \in ListKeys : ForeignWrite(k, JList(<<Plain.items[1]>>))

SpecCache == Init /\ [][NextCache]_vars

(***************************************************************************)
(* Properties.  They are stated over the call that has just returned       *)
(* (last): the state it started in, what it was given, what it handed      *)
(* back; and over what the next call would hand back in the state it left. *)
(***************************************************************************)
EmptyCache == [k \in {} |-> [val |-> JNone, ttl |-> 0]]
Wrapped == {"create_user", "update_user", "delete_user"}

ArgsOf(c) ==
    [user_id |-> c.user_id,
     user_data |-> IF c.op = "create_user" THEN c.data ELSE NoData,
     update_data |-> IF c.op = "update_user" THEN c.data ELSE EmptyDict]

\* the call c, made in context x
Run(c, x) ==
    CASE c.op = "get_user" -> get_user(x, c.user_id)
      [] c.op = "get_user_by_email" -> get_user_by_email(x, c.email)
      [] c.op = "get_users" -> get_users(x, c.skip, c.limit)
      [] OTHER -> with_transaction_retry(c.op, x, ArgsOf(c))

\* what the caller and the store see of a call
Outcome(r) == [exc |-> r.exc, users |-> r.users, flag |-> r.flag, db |-> r.x.db]

\* the key a read consults
ReadKey(c) ==
    CASE c.op = "get_user" -> USER_KEY(PyInt(c.user_id))
      [] c.op = "get_user_by_email" -> USER_EMAIL_KEY(PyStr(c.email))
      [] OTHER -> USERS_LIST_KEY(c.skip, c.limit)

\* the next call, made with a working cache in the state the last one left
NextGetUser(user_id) == get_user(Now(AllUp, NoFailure, FALSE), user_id)
NextGetUserByEmail(email) == get_user_by_email(Now(AllUp, NoFailure, FALSE), email)

\* the primary entry of user_id in a keyspace passes validation
ValidEntry(c, user_id) ==
    /\ USER_KEY(PyInt(user_id)) \in DOMAIN c
    /\ c[USER_KEY(PyInt(user_id))].val.t = "dict"
    /\ _validate_cache_data(c[USER_KEY(PyInt(user_id))].val)

\* C1: a call made while every cache command fails returns what the same
\* call returns with a working, empty cache, leaves the same rows, and no
\* cache error reaches the caller.
C1_CacheFailureIsTransparent ==
    (last # Idle /\ last.pre.up = AllDown) =>
        /\ Outcome(last.out) =
               Outcome(Run(last, [last.pre EXCEPT !.up = AllUp, !.cache = EmptyCache]))
        /\ last.out.exc.type # "RedisError"

\* C2: a read whose key holds text that json.loads rejects returns what
\* persistence holds, and no error reaches the caller.
C2_UnparseableIsAMiss ==
    (/\ last # Idle
     /\ last.op \in {"get_user", "get_user_by_email", "get_users"}
     /\ last.pre.up = AllUp
     /\ last.skip >= 0 /\ (last.op = "get_users" => last.limit > 0)
     /\ ReadKey(last) \in DOMAIN last.pre.cache
     /\ last.pre.cache[ReadKey(last)].val = JRaw) =>
        /\ ~Raised(last.out.exc)
        /\ last.out.users =
               Run(last, [last.pre EXCEPT !.cache = Remove(@, {ReadKey(last)})]).users

\* C3: when update_user returns an entity (stated for calls in which the
\* cache and the store work, the primary entry absent or the valid entry
\* a read of the row wrote), the committed row carries every value of the
\* partial.
C3_UpdateIsPersisted ==
    (/\ last # Idle
     /\ last.op = "update_user"
     /\ last.pre.up = AllUp /\ last.pre.plan = NoFailure
     /\ \/ USER_KEY(PyInt(last.user_id)) \notin DOMAIN last.pre.cache
        \/ /\ ValidEntry(last.pre.cache, last.user_id)
           /\ last.user_id \in DOMAIN last.pre.db
           /\ last.pre.cache[USER_KEY(PyInt(last.user_id))].val =
                  JDict(_user_to_dict(Loaded(last.pre.db[last.user_id])))
     /\ ~Raised(last.out.exc)
     /\ last.out.users # <<>>) =>
        /\ last.user_id \in DOMAIN db
        /\ \A f \in DOMAIN last.data : db[last.user_id][f] = last.data[f]

\* C4: when delete_user of a stored entity returns True (stated for calls
\* the store does not fail), the row is gone and the next get_user returns
\* absent.
C4_DeleteIsVisible ==
    (/\ last # Idle
     /\ last.op = "delete_user"
     /\ last.pre.plan = NoFailure
     /\ last.user_id \in DOMAIN last.pre.db
     /\ ~Raised(last.out.exc)
     /\ last.out.flag) =>
        /\ last.user_id \notin DOMAIN db
        /\ ~Raised(NextGetUser(last.user_id).exc)
        /\ NextGetUser(last.user_id).users = <<>>

\* deadlocks the store reported to the call
Deadlocks(c) == c.pre.plan.dead - c.out.x.plan.dead
IsDeadlock(e) == e.type = "OperationalError" /\ "deadlock" \in e.words

\* C5: an update_user whose commits met a deadlock exactly twice and that
\* then succeeded has made exactly 3 commits and 2 rollbacks and returns the
\* entity with the new values.
C5_TwoDeadlocksThreeCommits ==
    (/\ last # Idle
     /\ last.op = "update_user"
     /\ Deadlocks(last) = 2
     /\ ~Raised(last.out.exc)) =>
        /\ last.out.x.commits = 3
        /\ last.out.x.rollbacks = 2
        /\ last.out.users # <<>>
        /\ \A f \in DOMAIN last.data : Attr(last.out.users[1], f) = last.data[f]

C8_OldEmailIsNotServed ==
    (/\ last # Idle
     /\ last.op = "update_user"
     /\ last.pre.up = AllUp /\ last.pre.plan = NoFailure
     /\ last.user_id \in DOMAIN last.pre.db
     /\ "email" \in DOMAIN last.data
     /\ last.data["email"] # last.pre.db[last.user_id]["email"]
     /\ ~Raised(last.out.exc)
     /\ last.out.users # <<>>) =>
        LET oldEmail == last.pre.db[last.user_id]["email"][2] IN
        \A r \in {NextGetUser(last.user_id), NextGetUserByEmail(oldEmail)} :
            /\ ~Raised(r.exc)
            /\ r.users = <<>> \/ Attr(r.users[1], "email") = last.data["email"]

\* the data of an entity that the callers read
EntityData(u) == [f \in CacheFields \ {"_cache_version"} |-> Attr(u, f)]

\* C9: after a get_user that found the entity in the store and wrote the
\* primary entry, the next get_user returns the same id, email, username,
\* full name, flags and timestamps, from the cache and from the store alike.
C9_RepeatedReadsAgree ==
    (/\ last # Idle
     /\ last.op = "get_user"
     /\ last.pre.up = AllUp
     /\ last.out.x.queries = 1
     /\ last.out.users # <<>>
     /\ ValidEntry(cache, last.user_id)) =>
        \A r \in {NextGetUser(last.user_id),
                   get_user(Now(AllDown, NoFailure, FALSE), last.user_id)} :
            /\ ~Raised(r.exc)
            /\ r.users # <<>>
            /\ EntityData(r.users[1]) = EntityData(last.out.users[1])

\* what get_user makes of the entry at the primary key
FromEntry(c, user_id) ==
    UserCtor(Remove(c[USER_KEY(PyInt(user_id))].val.items[1], {"_cache_version"}))
ServedFromCache(c) ==
    /\ ~Raised(c.out.exc)
    /\ c.out.users = <<FromEntry(c.pre.cache, c.user_id)>>
    /\ c.out.x.queries = 0
    /\ c.out.x.cdels = 0
    /\ c.out.x.csets = 0
    /\ c.out.x.cache = c.pre.cache

\* C10 as stated: when the primary entry passes validation, get_user returns
\* the entity made from it, without a query, a cache delete or a cache write.
C10_ValidEntryIsServed ==
    (/\ last # Idle
     /\ last.op = "get_user"
     /\ last.pre.up = AllUp
     /\ ValidEntry(last.pre.cache, last.user_id)) =>
        ServedFromCache(last)

\* C10: when the primary entry passes validation and every other key of it
\* is an attribute of User, get_user returns the entity made from it, without
\* a query, a cache delete or a cache write; an entry tagged "1.0" stays as
\* it is.
C10_ConstructibleEntryIsServed ==
    (/\ last # Idle
     /\ last.op = "get_user"
     /\ last.pre.up = AllUp
     /\ ValidEntry(last.pre.cache, last.user_id)
     /\ DOMAIN last.pre.cache[USER_KEY(PyInt(last.user_id))].val.items[1]
            \subseteq UserColumns \cup {"_cache_version"}) =>
        ServedFromCache(last)

C10_Witness ==
    /\ last # Idle
    /\ last.op = "get_user"
    /\ ValidEntry(last.pre.cache, last.user_id)
    /\ last.pre.cache[USER_KEY(PyInt(last.user_id))].val.items[1]["_cache_version"]
           = PyStr("1.0")
    /\ ServedFromCache(last)
    /\ cache[USER_KEY(PyInt(last.user_id))] = last.pre.cache[USER_KEY(PyInt(last.user_id))]

\* the primary entry of user_id in a keyspace is JSON that fails validation
InvalidEntry(c, user_id) ==
    /\ USER_KEY(PyInt(user_id)) \in DOMAIN c
    /\ c[USER_KEY(PyInt(user_id))].val # JRaw
    /\ ~_validate_cache_data(c[USER_KEY(PyInt(user_id))].val)
NonEmptyEntry(c, user_id) == Truthy(c[USER_KEY(PyInt(user_id))].val)

\* get_user, called in context x, handed back r: it deleted the primary key
\* once, queried the store once, returned what the store holds, and wrote
\* the fresh entry once if the row exists and nothing if it does not
EvictedAndReloaded(r, x, user_id) ==
    /\ ~Raised(r.exc)
    /\ r.x.cdels = 1
    /\ r.x.queries = 1
    /\ r.x.db = x.db
    /\ IF user_id \in DOMAIN x.db
       THEN /\ r.users = <<Loaded(x.db[user_id])>>
            /\ r.x.csets = 1
            /\ r.x.order = <<<<"delete", "user">>, <<"set", "user">>>>
            /\ r.x.cache[USER_KEY(PyInt(user_id))] =
                   [val |-> JDict(_user_to_dict(Loaded(x.db[user_id]))),
                    ttl |-> USER_CACHE_EXPIRE]
            /\ r.x.cache[USER_KEY(PyInt(user_id))].val.items[1]["_cache_version"]
                   = PyStr("1.1")
       ELSE /\ r.users = <<>>
            /\ r.x.csets = 0
            /\ USER_KEY(PyInt(user_id)) \notin DOMAIN r.x.cache

\* the state the last call left, with doc put at the primary key of user_id
WithEntry(user_id, doc) ==
    [Now(AllUp, NoFailure, FALSE) EXCEPT
        !.cache = Put(@, USER_KEY(PyInt(user_id)),
                      [val |-> doc, ttl |-> USER_CACHE_EXPIRE])]

Conforms(j) ==
    /\ j.t = "dict"
    /\ CacheFields \subseteq DOMAIN j.items[1]
    /\ j.items[1]["id"][1] = "int"
    /\ j.items[1]["email"][1] = "str"
    /\ j.items[1]["username"][1] = "str"
    /\ j.items[1]["_cache_version"] \in {PyStr("1.0"), PyStr("1.1")}

\* C12: _validate_cache_data returns True for exactly the entries that hold
\* the nine fields with id an integer, email, username and version tag
\* strings and the tag "1.0" or "1.1", and False for every other document
\* (stated of every entry of the keyspace).
C12_ValidatesExactly ==
    \A k \in DOMAIN cache : _validate_cache_data(cache[k].val) <=> Conforms(cache[k].val)

\* the rows whose email is email up to letter case
RowsWithEmail(email) == {i \in DOMAIN db : lower(db[i]["email"][2]) = lower(email)}

C14_KeysAreUnique ==
    \A i \in DOMAIN db : \A j \in DOMAIN db \ {i} :
        /\ lower(db[i]["email"][2]) # lower(db[j]["email"][2])
        /\ db[i]["username"] # db[j]["username"]

\* the rows of a table that hold the email (up to letter case) or the
\* username of user_data
Taken(rows, user_data) ==
    {i \in DOMAIN rows : \/ lower(rows[i]["email"][2]) = lower(user_data.email)
                         \/ rows[i]["username"] = PyStr(user_data.username)}

LostRaceOn(c, column) ==
    /\ c.pre.plan.then = "dup_" \o column
    /\ c.out.x.plan.then = "ok"

\* C16: a create_user whose commit violates a unique index rolls back and
\* raises ValueError; the error names email when the index violated is that
\* of email and username when it is that of username.
C16_ConflictNamesTheField ==
    (/\ last # Idle
     /\ last.op = "create_user"
     /\ \E column \in {"email", "username"} : LostRaceOn(last, column)) =>
        /\ last.out.exc.type = "ValueError"
        /\ last.out.x.rollbacks >= 1
        /\ db = last.pre.db
        /\ LostRaceOn(last, "email") =>
               last.out.exc.words = {"user", "with", "email", "exists"}
        /\ LostRaceOn(last, "username") =>
               last.out.exc.words = {"user", "with", "username", "exists"}

\* C17: an update_user whose commit violates a unique index rolls back once
\* and raises ValueError, not the exception of the store.
C17_UpdateConflictIsValueError ==
    (/\ last # Idle
     /\ last.op = "update_user"
     /\ \E column \in {"email", "username"} : LostRaceOn(last, column)) =>
        /\ last.out.x.rollbacks = 1
        /\ last.out.exc.type = "ValueError"
        /\ db = last.pre.db

\* the commit of the call lost its connection
LostConnection(c) ==
    /\ c.pre.plan.then = "operr"
    /\ c.out.x.plan.then = "ok"

\* C18: an update_user whose commit fails with an operational error that is
\* no deadlock raises RuntimeError("Failed to update user ...") after one
\* attempt and one rollback.
C18_UpdateFailureIsRuntimeError ==
    (/\ last # Idle
     /\ last.op = "update_user"
     /\ LostConnection(last)) =>
        /\ last.out.x.attempts = 1
        /\ last.out.x.rollbacks = 1
        /\ last.out.exc.type = "RuntimeError"
        /\ {"failed", "update", "user"} \subseteq last.out.exc.words

\* the keyspace holds at key the projection of entity u, with the TTL of
\* user entries
HoldsProjection(c, key, u) ==
    /\ key \in DOMAIN c
    /\ c[key] = [val |-> JDict(_user_to_dict(u)), ttl |-> USER_CACHE_EXPIRE]

\* C19: after a create_user that returned the entity, made with a working
\* cache and a store that does not fail, the keyspace holds the projection
\* of the entity (with the id the store assigned, tagged "1.1", TTL 3600) at
\* user:{id} and at user:email:{email}.
C19_CreatedEntityIsCached ==
    (/\ last # Idle
     /\ last.op = "create_user"
     /\ last.pre.up = AllUp /\ last.pre.plan = NoFailure
     /\ ~Raised(last.out.exc)
     /\ last.out.users # <<>>) =>
        /\ Attr(last.out.users[1], "id") = PyInt(last.pre.next_id)
        /\ Attr(last.out.users[1], "email") = PyStr(lower(last.data.email))
        /\ HoldsProjection(cache, USER_KEY(Attr(last.out.users[1], "id")),
                           last.out.users[1])
        /\ HoldsProjection(cache, USER_EMAIL_KEY(Attr(last.out.users[1], "email")),
                           last.out.users[1])

\* the keys of a keyspace that hold a user document with the email
EntriesFor(c, email) ==
    {k \in DOMAIN c : /\ c[k].val.t = "dict"
                      /\ "email" \in DOMAIN c[k].val.items[1]
                      /\ c[k].val.items[1]["email"] = PyStr(email)}

\* C20: after a create_user whose commit failed and was rolled back, made
\* with a working cache, the keyspace holds no entry for the entity that was
\* not stored, and a read by its email returns absent.
C20_RolledBackCreateIsNotCached ==
    (/\ last # Idle
     /\ last.op = "create_user"
     /\ last.pre.up = AllUp
     /\ Raised(last.out.exc)
     /\ last.out.x.commits >= 1
     /\ RowsWithEmail(last.data.email) = {}) =>
        /\ EntriesFor(cache, lower(last.data.email)) = {}
        /\ NextGetUserByEmail(lower(last.data.email)).users = <<>>

\* the call c touched neither the store nor the keyspace after its read of
\* the entity: no commit, no rollback, no cache write, delete or clear
NothingDone(c) ==
    /\ c.out.x.commits = 0
    /\ c.out.x.rollbacks = 0
    /\ c.out.x.csets = 0 /\ c.out.x.cdels = 0 /\ c.out.x.cclears = 0
    /\ c.out.x.db = c.pre.db
    /\ c.out.x.cache = c.pre.cache

\* C21: update_user and delete_user of an id no row has return None and
\* False without raising, without a commit or a rollback, and without a
\* cache write, a cache delete or a clear of the list entries.
C21_AbsentIsNoOp ==
    (/\ last # Idle
     /\ last.op \in {"update_user", "delete_user"}
     /\ last.user_id \notin DOMAIN last.pre.db) =>
        /\ ~Raised(last.out.exc)
        /\ last.out.users = <<>>
        /\ ~last.out.flag
        /\ NothingDone(last)

\* the whole table as get_users would list it next, with a working cache
NextGetUsers(skip, limit) == get_users(Now(AllUp, NoFailure, FALSE), skip, limit)
Listed(r) == {r.users[i] : i \in DOMAIN r.users}

\* a listing shows what the write c did: the entity created, the values
\* set, the entity gone
Reflects(c, listing) ==
    CASE c.op = "create_user" ->
           \E u \in listing : EntityData(u) = EntityData(c.out.users[1])
      [] c.op = "update_user" ->
           \E u \in listing : /\ Attr(u, "id") = PyInt(c.user_id)
                              /\ \A f \in DOMAIN c.data : Attr(u, f) = c.data[f]
      [] OTHER -> \A u \in listing : Attr(u, "id") # PyInt(c.user_id)

\* a write that completed: create_user and update_user returned the entity,
\* delete_user returned True
Completed(c) ==
    /\ c.op \in Wrapped
    /\ ~Raised(c.out.exc)
    /\ c.out.users # <<>> \/ c.out.flag

\* C22: after a create_user, update_user or delete_user that completed with
\* a working cache, the keyspace holds no list entry, and the next get_users
\* queries the store and shows the write.
C22_ListsAreInvalidated ==
    (/\ last # Idle
     /\ Completed(last)
     /\ last.pre.up = AllUp) =>
        /\ \A k \in DOMAIN cache : ~MatchesListPattern(k)
        /\ \A skip \in {0, 1} : \A limit \in {1, MaxId} :
              /\ ~Raised(NextGetUsers(skip, limit).exc)
              /\ NextGetUsers(skip, limit).x.queries = 1
        /\ Reflects(last, Listed(NextGetUsers(0, MaxId)))

\* C23: get_users with skip < 0 or limit <= 0 raises ValueError (naming
\* skip when skip is negative, limit otherwise) without a cache command and
\* without a query: the context is handed back as it was given.
C23_BadPageIsRejectedFirst ==
    (/\ last # Idle
     /\ last.op = "get_users"
     /\ last.skip < 0 \/ last.limit <= 0) =>
        /\ last.out.exc.type = "ValueError"
        /\ last.out.exc.words =
               IF last.skip < 0 THEN {"skip", "must", "be", "non-negative"}
               ELSE {"limit", "must", "be", "positive"}
        /\ last.out.users = <<>>
        /\ last.out.x.cgets = 0 /\ last.out.x.csets = 0 /\ last.out.x.cdels = 0
        /\ last.out.x.queries = 0
        /\ last.out.x = last.pre
        /\ cache = last.pre.cache

C23_Witness ==
    /\ last # Idle
    /\ last.op = "get_users"
    /\ last.skip = 0 /\ last.limit = 0
    /\ last.pre.up = AllUp
    /\ last.pre.db # << >>
    /\ \E k \in DOMAIN last.pre.cache : MatchesListPattern(k)
    /\ last.out.exc = Exc("ValueError", {"limit", "must", "be", "positive"})
    /\ last.out.x.cgets = 0
    /\ last.out.x.queries = 0

\* the ids of the entities a call returned, in the order returned
IdsOf(users) == [i \in DOMAIN users |-> Attr(users[i], "id")]
\* the ids at store positions skip .. skip+limit-1
StoredAt(skip, limit) ==
    [i \in DOMAIN Page(Sorted(DOMAIN db), skip, limit) |->
        PyInt(Page(Sorted(DOMAIN db), skip, limit)[i])]

\* n consecutive pages of limit entities from skip on, each call made in
\* the context the one before left
RECURSIVE Pages(_, _, _, _)
Pages(x, skip, limit, n) ==
    IF n = 0 THEN <<>>
    ELSE LET r == get_users(x, skip, limit)
         IN IdsOf(r.users) \o Pages(r.x, skip + limit, limit, n - 1)

\* C24: with N rows stored, get_users(skip, limit) for skip >= 0 and
\* limit > 0 returns the min(limit, max(0, N - skip)) entities at store
\* positions skip .. skip+limit-1, and the pages 0, limit, 2*limit, ... read
\* one after the other are the stored entities, each once.
C24_PagesAreExact ==
    \A limit \in 1..(MaxId + 1) :
        /\ \A skip \in 0..(MaxId + 1) :
              /\ ~Raised(NextGetUsers(skip, limit).exc)
              /\ IdsOf(NextGetUsers(skip, limit).users) = StoredAt(skip, limit)
        /\ Pages(Now(AllUp, NoFailure, FALSE), 0, limit, MaxId + 1) = StoredAt(0, MaxId)

\* the call c was answered from the entry doc alone: the entity made of its
\* fields, no query, no cache delete, the keyspace as it was
AnsweredFrom(c, doc) ==
    /\ ~Raised(c.out.exc)
    /\ c.out.users \in {<<UserCtor(doc)>>, <<UserCtor(Remove(doc, {"_cache_version"}))>>}
    /\ c.out.x.queries = 0
    /\ c.out.x.cdels = 0
    /\ c.out.x.cache = c.pre.cache

\* C25: when user:email:{email} holds a user document, get_user_by_email
\* returns the entity made from it without a query and without deleting
\* the entry.
C25_EmailEntryIsServed ==
    (/\ last # Idle
     /\ last.op = "get_user_by_email"
     /\ last.pre.up = AllUp
     /\ ReadKey(last) \in DOMAIN last.pre.cache
     /\ last.pre.cache[ReadKey(last)].val.t = "dict"
     /\ Truthy(last.pre.cache[ReadKey(last)].val)) =>
        AnsweredFrom(last, last.pre.cache[ReadKey(last)].val.items[1])

\* C26: when users:list:{skip}:{limit} holds a list entry, get_users returns
\* the entities made from its documents, in the order of the entry, without
\* a query and without deleting the entry.
C26_ListEntryIsServed ==
    (/\ last # Idle
     /\ last.op = "get_users"
     /\ last.skip >= 0 /\ last.limit > 0
     /\ last.pre.up = AllUp
     /\ ReadKey(last) \in DOMAIN last.pre.cache
     /\ last.pre.cache[ReadKey(last)].val.t = "list"
     /\ Truthy(last.pre.cache[ReadKey(last)].val)) =>
        /\ ~Raised(last.out.exc)
        /\ Len(last.out.users) = Len(last.pre.cache[ReadKey(last)].val.items)
        /\ \A i \in DOMAIN last.out.users :
              last.out.users[i] \in
                  {UserCtor(last.pre.cache[ReadKey(last)].val.items[i]),
                   UserCtor(Remove(last.pre.cache[ReadKey(last)].val.items[i],
                                   {"_cache_version"}))}
        /\ last.out.x.queries = 0
        /\ last.out.x.cdels = 0
        /\ last.out.x.cache = last.pre.cache

\* the rows a listing of the table rows finds
RowsAt(rows, skip, limit) ==
    [i \in DOMAIN Page(Sorted(DOMAIN rows), skip, limit) |->
        Loaded(rows[Page(Sorted(DOMAIN rows), skip, limit)[i]])]

\* get_users found the list key absent and the query found rows
ListingMiss(c) ==
    /\ c.op = "get_users"
    /\ c.skip >= 0 /\ c.limit > 0
    /\ c.pre.up.get
    /\ ReadKey(c) \notin DOMAIN c.pre.cache
    /\ RowsAt(c.pre.db, c.skip, c.limit) # <<>>

\* C27: a get_users miss that finds rows returns them without an error and
\* sends both writes.  When the SETEX goes through, the list entry holds the
\* projections of the page with TTL 300; when the pipeline goes through,
\* user:{id} of every returned entity holds its projection with TTL 3600.
\* A write that fails leaves its keys as they were.
C27_ListingIsCached ==
    (last # Idle /\ ListingMiss(last)) =>
        /\ ~Raised(last.out.exc)
        /\ last.out.users = RowsAt(last.pre.db, last.skip, last.limit)
        /\ last.out.x.queries = 1
        /\ last.out.x.csets = 2
        /\ IF last.pre.up.set
           THEN /\ ReadKey(last) \in DOMAIN cache
                /\ cache[ReadKey(last)] =
                       [val |-> JList([i \in DOMAIN last.out.users |->
                                          _user_to_dict(last.out.users[i])]),
                        ttl |-> USERS_LIST_CACHE_EXPIRE]
           ELSE ReadKey(last) \notin DOMAIN cache
        /\ \A i \in DOMAIN last.out.users :
              IF last.pre.up.mset
              THEN HoldsProjection(cache, USER_KEY(Attr(last.out.users[i], "id")),
                                   last.out.users[i])
              ELSE \/ /\ USER_KEY(Attr(last.out.users[i], "id")) \notin DOMAIN cache
                      /\ USER_KEY(Attr(last.out.users[i], "id")) \notin DOMAIN last.pre.cache
                   \/ /\ USER_KEY(Attr(last.out.users[i], "id")) \in DOMAIN last.pre.cache
                      /\ USER_KEY(Attr(last.out.users[i], "id")) \in DOMAIN cache
                      /\ cache[USER_KEY(Attr(last.out.users[i], "id"))] =
                             last.pre.cache[USER_KEY(Attr(last.out.users[i], "id"))]

\* the list entry was written and the pipeline failed
C27_Witness ==
    /\ last # Idle
    /\ ListingMiss(last)
    /\ last.pre.up.set /\ ~last.pre.up.mset
    /\ ~Raised(last.out.exc)
    /\ last.out.users # <<>>
    /\ ReadKey(last) \in DOMAIN cache
    /\ cache[ReadKey(last)].ttl = USERS_LIST_CACHE_EXPIRE
    /\ USER_KEY(Attr(last.out.users[1], "id")) \notin DOMAIN cache

\* what the store holds for user_id, as a query returns it
RowOf(rows, user_id) ==
    IF user_id \in DOMAIN rows THEN <<Loaded(rows[user_id])>> ELSE <<>>

\* C28: a get_user whose cache lookup fails with a Redis error returns what
\* the store holds after one query, and sends no cache write and no cache
\* delete, even if those commands would go through.  A get_user whose lookup
\* finds the key absent returns what the store holds and sends exactly one
\* cache write if the row exists, none if it does not.
C28_LookupFailureSkipsTheCache ==
    (last # Idle /\ last.op = "get_user") =>
        /\ ~last.pre.up.get =>
              /\ ~Raised(last.out.exc)
              /\ last.out.users = RowOf(last.pre.db, last.user_id)
              /\ last.out.x.queries = 1
              /\ last.out.x.csets = 0
              /\ last.out.x.cdels = 0
              /\ cache = last.pre.cache
        /\ (last.pre.up.get /\ ReadKey(last) \notin DOMAIN last.pre.cache) =>
              /\ ~Raised(last.out.exc)
              /\ last.out.users = RowOf(last.pre.db, last.user_id)
              /\ last.out.x.queries = 1
              /\ last.out.x.cdels = 0
              /\ last.out.x.csets = IF last.user_id \in DOMAIN last.pre.db THEN 1 ELSE 0
              /\ (last.user_id \in DOMAIN last.pre.db /\ last.pre.up.set) =>
                     HoldsProjection(cache, ReadKey(last), last.out.users[1])
              /\ (last.user_id \notin DOMAIN last.pre.db \/ ~last.pre.up.set) =>
                     cache = last.pre.cache

\* the lookup failed while SETEX and DEL would have worked, and the entry
\* that no longer matches the row stayed
C28_Witness ==
    /\ last # Idle
    /\ last.op = "get_user"
    /\ ~last.pre.up.get /\ last.pre.up.set /\ last.pre.up.del
    /\ last.user_id \in DOMAIN last.pre.db
    /\ ReadKey(last) \in DOMAIN last.pre.cache
    /\ ~HoldsProjection(last.pre.cache, ReadKey(last), Loaded(last.pre.db[last.user_id]))
    /\ last.out.users = <<Loaded(last.pre.db[last.user_id])>>
    /\ last.out.x.csets = 0
    /\ cache = last.pre.cache

\* the requested keys that hold a value json.loads accepts
ParseableAmong(c, keys) == {k \in keys : k \in DOMAIN c /\ Parses(c[k].val)}

\* cache_multi_get, when the MGET goes through, returns the values of
\* exactly the requested keys that are present and parse, and raises nothing
MultiGetOmits ==
    (/\ last # Idle
     /\ last.op = "cache_multi_get"
     /\ Reached(last.pre, "get")) =>
        /\ last.out.err = ""
        /\ DOMAIN last.out.val = ParseableAmong(last.pre.cache, last.keys)
        /\ \A k \in DOMAIN last.out.val :
              last.out.val[k] = deserialize_value(last.pre.cache[k].val)
        /\ cache = last.pre.cache

\* C29 as stated: cache_multi_get returns exactly the requested keys whose
\* value is present and parses, and cache_get of a stored value that does
\* not parse raises an error.
C29_GetRaisesOnUnparseable ==
    /\ MultiGetOmits
    /\ (/\ last # Idle
        /\ last.op = "cache_get"
        /\ Reached(last.pre, "get")
        /\ last.key \in DOMAIN last.pre.cache
        /\ ~Parses(last.pre.cache[last.key].val)) =>
           last.out.err = "ValueError"

\* C29: the same, with cache_get raising ValueError for a stored value that
\* is not empty and does not parse; an empty stored value (which does not
\* parse either) is returned by cache_get as absent, without an error.
C29_GetRaisesOnNonEmptyUnparseable ==
    /\ MultiGetOmits
    /\ (/\ last # Idle
        /\ last.op = "cache_get"
        /\ Reached(last.pre, "get")
        /\ last.key \in DOMAIN last.pre.cache
        /\ ~Parses(last.pre.cache[last.key].val)) =>
           IF last.pre.cache[last.key].val = JEmpty
           THEN last.out.err = "" /\ last.out.val = JNone
           ELSE last.out.err = "ValueError"

\* a multi-get over a key that parses and one that does not
C29_Witness ==
    /\ last # Idle
    /\ last.op = "cache_multi_get"
    /\ Reached(last.pre, "get")
    /\ \E k \in last.keys : /\ k \in DOMAIN last.pre.cache
                             /\ last.pre.cache[k].val = JRaw
                             /\ cache_get(last.pre, k).err = "ValueError"
    /\ \E k \in last.keys : k \in DOMAIN last.pre.cache /\ last.pre.cache[k].val = Plain
    /\ last.out.err = ""
    /\ Cardinality(DOMAIN last.out.val) = 1

\* the functions of the adapter that answer with a bool (cache_increment:
\* with the new value or None), and the command each sends
Quiet == {"cache_set", "cache_delete", "cache_exists", "cache_multi_set",
          "cache_clear_pattern", "cache_increment", "check_redis_health"}
CommandOf(op) ==
    CASE op \in {"cache_set", "cache_increment"} -> "set"
      [] op = "cache_multi_set" -> "mset"
      [] op \in {"cache_delete", "cache_clear_pattern"} -> "del"
      [] OTHER -> "get"
\* the command of the call met a Redis error
Unavailable(c) == ~Reached(c.pre, CommandOf(c.op))
\* the call answered False (cache_increment: None)
AnsweredFalse(c) ==
    IF c.op = "cache_increment" THEN c.out.val = JNone ELSE ~c.out.ok

C31_ScanThenDelete ==
    (last # Idle /\ last.op = "cache_clear_pattern" /\ Reached(last.pre, "del")) =>
        /\ last.keys = {k \in DOMAIN last.pre.cache : MatchesListPattern(k)}
        /\ last.keys = {} => (last.out.ok /\ cache = last.pre.cache)
        /\ last.keys \cap DOMAIN cache = {}
        /\ \A k \in (DOMAIN last.at) \ last.keys :
              k \in DOMAIN cache /\ cache[k] = last.at[k]
        /\ DOMAIN cache \subseteq DOMAIN last.at

\* a list entry written between the scan and the DEL outlives the call that
\* removed the entry it had scanned
C31_Witness ==
    /\ last # Idle
    /\ last.op = "cache_clear_pattern"
    /\ last.keys = {USERS_LIST_KEY(0, 1)}
    /\ USERS_LIST_KEY(1, 1) \notin DOMAIN last.pre.cache
    /\ USERS_LIST_KEY(1, 1) \in DOMAIN last.at
    /\ USERS_LIST_KEY(1, 1) \in DOMAIN cache
    /\ USERS_LIST_KEY(0, 1) \notin DOMAIN cache
    /\ last.out.ok

\* the entries of the order of a call that belong to the attempt of entry i
SameAttempt(o, i) ==
    {j \in DOMAIN o : \A k \in DOMAIN o :
        (k > (IF i < j THEN i ELSE j) /\ k <= (IF i < j THEN j ELSE i))
            => o[k] # <<"attempt", "">>}
\* the writes of update_user's cache block that carry or expose new values:
\* the secondary entry (get_user writes none) and the clearing of the lists
NewValueWrites == {<<"set", "user:email">>, <<"clear", "users:list">>}

\* C32: in every attempt of update_user the new secondary entry is set and
\* the list entries are cleared after the commit of the attempt, never
\* before it; the old entries are deleted before it.
C32_CacheAfterCommit ==
    (last # Idle /\ last.op = "update_user") =>
        LET o == last.out.x.order IN
        \A i \in DOMAIN o :
            /\ o[i] \in NewValueWrites =>
                  /\ \E j \in SameAttempt(o, i) : j < i /\ o[j] = <<"commit", "">>
                  /\ ~\E j \in SameAttempt(o, i) : j > i /\ o[j] = <<"commit", "">>
            /\ o[i] = <<"delete", "user:email">> =>
                  \E j \in SameAttempt(o, i) : j > i /\ o[j] = <<"commit", "">>

\* the call ended with an error of the store
PersistenceError(c) == c.out.exc.type \in {"IntegrityError", "OperationalError"}
\* the read r returned the row of user_id as it is stored
ReturnsRow(r, user_id) ==
    /\ r.exc = NoExc
    /\ r.users # <<>>
    /\ EntityData(r.users[1]) = EntityData(Loaded(db[user_id]))

\* the keyspace of x holds neither entry of the stored user
Uncached(x, user_id) ==
    /\ USER_KEY(PyInt(user_id)) \notin DOMAIN x.cache
    /\ USER_EMAIL_KEY(x.db[user_id]["email"]) \notin DOMAIN x.cache

\* C33: when update_user of a stored user that had no entry in the cache
\* ends with an error of the store, the rows are as they were, and
\* get_user(id) and get_user_by_email of the stored email return the row.
C33_FailedUpdateLeavesNoTrace ==
    (/\ last # Idle
     /\ last.op = "update_user"
     /\ PersistenceError(last)
     /\ last.user_id \in DOMAIN last.pre.db
     /\ Uncached(last.pre, last.user_id)) =>
        /\ db = last.pre.db
        /\ ReturnsRow(NextGetUser(last.user_id), last.user_id)
        /\ ReturnsRow(NextGetUserByEmail(db[last.user_id]["email"][2]), last.user_id)

\* C34: when update_user of a stored user that had no entry in the cache
\* met a deadlock at a commit and then returned the entity, the stored row
\* carries the requested values.
C34_RetryPersistsTheChange ==
    (/\ last # Idle
     /\ last.op = "update_user"
     /\ Deadlocks(last) >= 1
     /\ last.user_id \in DOMAIN last.pre.db
     /\ Uncached(last.pre, last.user_id)
     /\ ~Raised(last.out.exc)
     /\ last.out.users # <<>>) =>
        /\ last.out.x.attempts = Deadlocks(last) + 1
        /\ last.user_id \in DOMAIN db
        /\ \A f \in DOMAIN last.data : db[last.user_id][f] = last.data[f]

\* C35: an update_user call that got past its validation and returned the
\* entity has committed once per attempt: the nested block committed
\* nothing, whether the session was in a transaction or not.
C35_NestedBlockDoesNotCommit ==
    (/\ last # Idle
     /\ last.op = "update_user"
     /\ ~Raised(last.out.exc)
     /\ last.out.users # <<>>) =>
        last.out.x.commits = last.out.x.attempts

\* the row the block set out to change holds the change
BlockCommitted == db[1]["full_name"] = PyStr("n2")
\* the deadlocks the call met are within its retries and nothing else fails
WithinRetries(c) == c.pre.plan.then = "ok" /\ c.pre.plan.dead <= c.retries

\* the commits of the call that met a deadlock (a block that flushes meets
\* it at its own statement)
FailedCommits(c) == IF c.block = "setattr" THEN Deadlocks(c) ELSE 0

\* C36: a transaction(session, retries=n) block whose statements or commit
\* meet at most n deadlocks and no other failure ends without an error and
\* with its change committed; an error reaches the caller only for a failure
\* that is no deadlock or for more than n deadlocks; a block that ends
\* without an error has had exactly one commit go through.
C36_DeadlockIsRetried ==
    (last # Idle /\ last.op = "transaction") =>
        /\ (WithinRetries(last) /\ last.block \in {"setattr", "flush"}) =>
               (~Raised(last.out.exc) /\ BlockCommitted)
        /\ Raised(last.out.exc) =>
               \/ last.block = "raise"
               \/ ~WithinRetries(last)
        /\ ~Raised(last.out.exc) => last.out.x.commits - FailedCommits(last) = 1

\* the projection of the stored row of user_id in context x
Projection(x, user_id) == _user_to_dict(Loaded(x.db[user_id]))
\* the primary entry of a stored user passes validation and disagrees with
\* the row
StaleEntry(x, user_id) ==
    /\ user_id \in DOMAIN x.db
    /\ ValidEntry(x.cache, user_id)
    /\ \E f \in CacheFields \ {"_cache_version"} :
          x.cache[USER_KEY(PyInt(user_id))].val.items[1][f] # Projection(x, user_id)[f]
\* the call wrote a primary entry
WrotePrimary(c) ==
    \E n \in DOMAIN c.out.x.order :
        c.out.x.order[n] \in {<<"set", "user">>, <<"multi_set", "user">>}
\* the primary entry of user_id now holds a value of the entry the call
\* found that neither the row it found nor the row it left holds
CopiedBack(c, user_id) ==
    /\ USER_KEY(PyInt(user_id)) \in DOMAIN cache
    /\ cache[USER_KEY(PyInt(user_id))].val.t = "dict"
    /\ \E f \in CacheFields \ {"_cache_version"} :
          LET old == c.pre.cache[USER_KEY(PyInt(user_id))].val.items[1]
              new == cache[USER_KEY(PyInt(user_id))].val.items[1]
          IN /\ f \in DOMAIN new
             /\ new[f] = old[f]
             /\ old[f] # Projection(c.pre, user_id)[f]
             /\ user_id \in DOMAIN db => new[f] # _user_to_dict(Loaded(db[user_id]))[f]

\* C37: get_user, get_users and update_user, run while the primary entry of
\* a stored user disagrees with its row, write no primary entry that holds
\* the disagreeing values again (with the TTL of a new entry).
C37_StaleEntryIsNotRenewed ==
    (last # Idle /\ last.op \in {"get_user", "get_users", "update_user"}) =>
        \A i \in DOMAIN last.pre.db :
            (/\ StaleEntry(last.pre, i)
             /\ last.op = "get_users" \/ last.user_id = i
             /\ WrotePrimary(last)) => ~CopiedBack(last, i)

\* both calls have returned, delete_user with True, and every cache
\* command of both reached Redis
BothReturned ==
    /\ tx["get_user"].pc = "done"
    /\ tx["delete_user"].pc = "done"
    /\ ~Raised(tx["delete_user"].out.exc)
    /\ tx["delete_user"].out.flag
    /\ tx["delete_user"].x.up = AllUp

\* C38: once delete_user(1) has returned True and the get_user(1) that ran
\* beside it has returned, with Redis reachable throughout, user:1 is not in
\* the keyspace and a new get_user(1) returns absent.
C38_DeletedUserIsNotCached ==
    BothReturned =>
        /\ USER_KEY(PyInt(1)) \notin DOMAIN cache
        /\ ~Raised(NextGetUser(1).exc)
        /\ NextGetUser(1).users = <<>>

\* the entries the call left in the keyspace that it did not find there
WrittenKeys(c) ==
    {k \in DOMAIN cache : k \notin DOMAIN c.pre.cache \/ cache[k] # c.pre.cache[k]}
\* the user payloads of a document: the dict itself, or the dicts of a list
PayloadsOf(j) ==
    IF j.t = "list" THEN {j.items[n] : n \in DOMAIN j.items} ELSE {j.items[1]}
Populating == {"create_user", "get_user", "get_user_by_email", "get_users", "update_user"}

\* C39: every payload that create_user, get_user, get_user_by_email,
\* get_users or update_user leaves in the cache has exactly the nine
\* projected fields, without the hashed credential, carries the version
\* "1.1", and passes _validate_cache_data.
C39_WrittenPayloadsAreValid ==
    (last # Idle /\ last.op \in Populating) =>
        \A k \in WrittenKeys(last) :
            /\ cache[k].val.t \in {"dict", "list"}
            /\ \A d \in PayloadsOf(cache[k].val) :
                  /\ DOMAIN d = CacheFields
                  /\ "hashed_password" \notin DOMAIN d
                  /\ d["_cache_version"] = PyStr("1.1")
                  /\ _validate_cache_data(JDict(d))

\* C40: after create_user(data) returned the entity, get_user_by_email of
\* data.email as it was given returns the entity with the id created.
C40_CreatedUserIsFoundByEmail ==
    (/\ last # Idle
     /\ last.op = "create_user"
     /\ ~Raised(last.out.exc)
     /\ last.out.users # <<>>) =>
        LET r == NextGetUserByEmail(last.data.email) IN
        /\ ~Raised(r.exc)
        /\ r.users # <<>>
        /\ Attr(r.users[1], "id") = Attr(last.out.users[1], "id")
====
